---- MODULE Spec2Model ----
(***************************************************************************)
(* A model of the Cast Portal client library (heisz/castportal): the mDNS  *)
(* discovery engine (castDiscover, parseQName, skipQName) and the Cast     *)
(* message channel (castSendMessage, parseInboundMessages,                 *)
(* castReceiveMessage) with the exchanges built on it (castDevicePing,     *)
(* castAppCheckAvailability).  Octets are integers 0..255, C strings and   *)
(* wire messages are sequences of octets, and every decoder is computed    *)
(* octet by octet the way the C code computes it, including what it reads  *)
(* from memory that lies behind the end of the current message.            *)
(***************************************************************************)
EXTENDS Integers, Sequences, FiniteSets, TLC

(***************************************************************************)
(* String and array constants of the source, as octet sequences.           *)
(***************************************************************************)
\* "_googlecast"
_googlecast ==
    <<95, 103, 111, 111, 103, 108, 101, 99, 97, 115, 116>>

\* "_tcp"
_tcp ==
    <<95, 116, 99, 112>>

\* "local"
local ==
    <<108, 111, 99, 97, 108>>

\* captured IPv4 response (250 bytes)
tstRespOne ==
    <<254, 237, 132, 0, 0, 0, 0, 1, 0, 0, 0, 3, 11, 95, 103, 111, 111, 103,
      108, 101, 99, 97, 115, 116, 4, 95, 116, 99, 112, 5, 108, 111, 99, 97,
      108, 0, 0, 12, 0, 1, 0, 0, 0, 120, 0, 46, 43, 67, 104, 114, 111, 109,
      101, 99, 97, 115, 116, 45, 50, 98, 54, 51, 57, 55, 48, 104, 98, 99, 50,
      50, 104, 50, 54, 98, 54, 98, 50, 97, 48, 52, 57, 50, 56, 50, 53, 100,
      98, 56, 100, 50, 192, 12, 192, 46, 0, 16, 128, 1, 0, 0, 17, 148, 0,
      179, 35, 105, 100, 61, 54, 51, 57, 55, 48, 104, 98, 99, 50, 50, 104,
      50, 54, 98, 54, 98, 50, 97, 48, 52, 57, 50, 56, 50, 53, 100, 98, 56,
      100, 50, 102, 52, 35, 99, 100, 61, 67, 66, 51, 48, 49, 49, 65, 53, 52,
      70, 70, 70, 70, 52, 70, 54, 65, 69, 65, 48, 68, 55, 67, 57, 67, 54, 66,
      70, 68, 65, 55, 68, 19, 114, 109, 61, 70, 56, 67, 65, 70, 66, 57, 55,
      65, 70, 65, 51, 54, 49, 48, 70, 5, 118, 101, 61, 48, 53, 13, 109, 100,
      61, 67, 104, 114, 111, 109, 101, 99, 97, 115, 116, 18, 105, 99, 61, 47,
      115, 101, 116, 117, 112, 47, 105, 99, 111, 110, 46, 112, 110, 103, 9,
      102, 110, 61, 68, 101, 110, 32, 84, 86, 7, 99, 97, 61, 52, 49, 48, 49,
      4, 115, 116, 61, 48, 15, 98, 115, 61, 70, 65, 56, 70, 67, 65, 57, 50,
      49, 48, 65, 50, 4, 110, 102, 61, 49, 3, 114, 115, 61, 192, 46, 0, 33,
      128, 1, 0, 0, 0, 120, 0, 45, 0, 0, 0, 0, 31, 73, 36, 48, 53, 52, 50,
      55, 57, 48, 102, 45, 97, 102, 48, 54, 45, 102, 56, 54, 97, 45, 49, 102,
      49, 98, 45, 54, 52, 56, 57, 56, 48, 57, 48, 102, 57, 102, 52, 192, 29,
      193, 45, 0, 1, 128, 1, 0, 0, 0, 120, 0, 4, 10, 12, 1, 141>>

\* captured IPv6 response
tstRespTwo ==
    <<254, 237, 132, 0, 0, 0, 0, 1, 0, 0, 0, 4, 11, 95, 103, 111, 111, 103,
      108, 101, 99, 97, 115, 116, 4, 95, 116, 99, 112, 5, 108, 111, 99, 97,
      108, 0, 0, 12, 0, 1, 0, 0, 0, 120, 0, 46, 43, 67, 104, 114, 111, 109,
      101, 99, 97, 115, 116, 45, 54, 98, 48, 104, 51, 98, 50, 54, 48, 50, 51,
      100, 50, 51, 50, 101, 48, 55, 50, 97, 50, 98, 101, 50, 56, 97, 50, 52,
      98, 55, 98, 55, 192, 12, 192, 46, 0, 16, 128, 1, 0, 0, 17, 148, 0, 195,
      35, 105, 100, 61, 54, 98, 48, 104, 51, 98, 50, 54, 48, 50, 51, 100, 50,
      51, 50, 101, 48, 55, 50, 97, 50, 98, 101, 50, 56, 97, 50, 52, 98, 55,
      98, 55, 35, 99, 100, 61, 67, 52, 69, 50, 65, 65, 55, 66, 65, 67, 51,
      68, 65, 48, 65, 48, 57, 55, 56, 55, 68, 52, 69, 68, 54, 50, 48, 53, 53,
      68, 68, 55, 19, 114, 109, 61, 55, 50, 50, 69, 52, 49, 65, 54, 53, 48,
      51, 54, 52, 54, 67, 69, 5, 118, 101, 61, 48, 53, 19, 109, 100, 61, 67,
      104, 114, 111, 109, 101, 99, 97, 115, 116, 32, 85, 108, 116, 114, 97,
      18, 105, 99, 61, 47, 115, 101, 116, 117, 112, 47, 105, 99, 111, 110,
      46, 112, 110, 103, 19, 102, 110, 61, 84, 83, 84, 32, 67, 104, 114, 111,
      109, 101, 32, 80, 97, 110, 101, 108, 7, 99, 97, 61, 52, 49, 48, 49, 4,
      115, 116, 61, 48, 15, 98, 115, 61, 70, 65, 56, 70, 67, 65, 55, 56, 52,
      53, 65, 50, 4, 110, 102, 61, 49, 3, 114, 115, 61, 192, 46, 0, 33, 128,
      1, 0, 0, 0, 120, 0, 45, 0, 0, 0, 0, 31, 73, 36, 56, 50, 50, 102, 54,
      97, 52, 48, 45, 52, 50, 57, 56, 45, 50, 50, 55, 99, 45, 50, 57, 57, 99,
      45, 48, 100, 55, 52, 57, 51, 56, 50, 102, 57, 100, 57, 192, 29, 193,
      55, 0, 1, 128, 1, 0, 0, 0, 120, 0, 4, 10, 12, 1, 116, 193, 55, 0, 28,
      128, 1, 0, 0, 0, 120, 0, 16, 32, 22, 12, 216, 69, 103, 44, 208, 0, 0,
      0, 18, 0, 0, 0, 0>>

\* "Chromecast"
StrChromecast ==
    <<67, 104, 114, 111, 109, 101, 99, 97, 115, 116>>

\* "urn:x-cast:com.google.cast.tp.connection"
NsConnection ==
    <<117, 114, 110, 58, 120, 45, 99, 97, 115, 116, 58, 99, 111, 109, 46,
      103, 111, 111, 103, 108, 101, 46, 99, 97, 115, 116, 46, 116, 112, 46,
      99, 111, 110, 110, 101, 99, 116, 105, 111, 110>>

\* "urn:x-cast:com.google.cast.tp.deviceauth"
NsDeviceAuth ==
    <<117, 114, 110, 58, 120, 45, 99, 97, 115, 116, 58, 99, 111, 109, 46,
      103, 111, 111, 103, 108, 101, 46, 99, 97, 115, 116, 46, 116, 112, 46,
      100, 101, 118, 105, 99, 101, 97, 117, 116, 104>>

\* "urn:x-cast:com.google.cast.tp.heartbeat"
NsHeartbeat ==
    <<117, 114, 110, 58, 120, 45, 99, 97, 115, 116, 58, 99, 111, 109, 46,
      103, 111, 111, 103, 108, 101, 46, 99, 97, 115, 116, 46, 116, 112, 46,
      104, 101, 97, 114, 116, 98, 101, 97, 116>>

\* "urn:x-cast:com.google.cast.receiver"
NsReceiver ==
    <<117, 114, 110, 58, 120, 45, 99, 97, 115, 116, 58, 99, 111, 109, 46,
      103, 111, 111, 103, 108, 101, 46, 99, 97, 115, 116, 46, 114, 101, 99,
      101, 105, 118, 101, 114>>

\* "sender-0"
StrSender0 ==
    <<115, 101, 110, 100, 101, 114, 45, 48>>

\* "receiver-0"
StrReceiver0 ==
    <<114, 101, 99, 101, 105, 118, 101, 114, 45, 48>>

\* "castptl-nnn"
StrCastptlNnn ==
    <<99, 97, 115, 116, 112, 116, 108, 45, 110, 110, 110>>

\* "castptl-000"
StrCastptl000 ==
    <<99, 97, 115, 116, 112, 116, 108, 45, 48, 48, 48>>

\* canned PONG frame
_tstPongResp ==
    <<0, 0, 0, 84, 8, 0, 18, 10, 114, 101, 99, 101, 105, 118, 101, 114, 45,
      48, 26, 8, 115, 101, 110, 100, 101, 114, 45, 48, 34, 39, 117, 114, 110,
      58, 120, 45, 99, 97, 115, 116, 58, 99, 111, 109, 46, 103, 111, 111,
      103, 108, 101, 46, 99, 97, 115, 116, 46, 116, 112, 46, 104, 101, 97,
      114, 116, 98, 101, 97, 116, 40, 0, 50, 15, 123, 34, 116, 121, 112, 101,
      34, 58, 34, 80, 79, 78, 71, 34, 125>>

\* canned APP_AVAILABLE frame
_appAvailResp ==
    <<0, 0, 0, 162, 8, 0, 18, 10, 114, 101, 99, 101, 105, 118, 101, 114, 45,
      48, 26, 8, 115, 101, 110, 100, 101, 114, 45, 48, 34, 35, 117, 114, 110,
      58, 120, 45, 99, 97, 115, 116, 58, 99, 111, 109, 46, 103, 111, 111,
      103, 108, 101, 46, 99, 97, 115, 116, 46, 114, 101, 99, 101, 105, 118,
      101, 114, 40, 0, 50, 97, 123, 34, 97, 118, 97, 105, 108, 97, 98, 105,
      108, 105, 116, 121, 34, 58, 123, 34, 48, 50, 56, 51, 52, 54, 52, 56,
      34, 58, 34, 65, 80, 80, 95, 65, 86, 65, 73, 76, 65, 66, 76, 69, 34,
      125, 44, 34, 114, 101, 113, 117, 101, 115, 116, 73, 100, 34, 58, 49,
      44, 34, 114, 101, 115, 112, 111, 110, 115, 101, 84, 121, 112, 101, 34,
      58, 34, 71, 69, 84, 95, 65, 80, 80, 95, 65, 86, 65, 73, 76, 65, 66, 73,
      76, 73, 84, 89, 34, 125>>

\* canned APP_UNAVAILABLE frame
_appUnavailResp ==
    <<0, 0, 0, 164, 8, 0, 18, 10, 114, 101, 99, 101, 105, 118, 101, 114, 45,
      48, 26, 8, 115, 101, 110, 100, 101, 114, 45, 48, 34, 35, 117, 114, 110,
      58, 120, 45, 99, 97, 115, 116, 58, 99, 111, 109, 46, 103, 111, 111,
      103, 108, 101, 46, 99, 97, 115, 116, 46, 114, 101, 99, 101, 105, 118,
      101, 114, 40, 0, 50, 99, 123, 34, 97, 118, 97, 105, 108, 97, 98, 105,
      108, 105, 116, 121, 34, 58, 123, 34, 48, 50, 56, 51, 52, 54, 52, 56,
      34, 58, 34, 65, 80, 80, 95, 85, 78, 65, 86, 65, 73, 76, 65, 66, 76, 69,
      34, 125, 44, 34, 114, 101, 113, 117, 101, 115, 116, 73, 100, 34, 58,
      49, 44, 34, 114, 101, 115, 112, 111, 110, 115, 101, 84, 121, 112, 101,
      34, 58, 34, 71, 69, 84, 95, 65, 80, 80, 95, 65, 86, 65, 73, 76, 65, 66,
      73, 76, 73, 84, 89, 34, 125>>

\* a device label
StrTV == <<84, 86>>  \* "TV"

Str_services == <<95, 115, 101, 114, 118, 105, 99, 101, 115>>  \* "_services"

Str_dns_sd == <<95, 100, 110, 115, 45, 115, 100>>  \* "_dns-sd"

Str_udp == <<95, 117, 100, 112>>  \* "_udp"

\* TXT character strings
TxtIdA1 == <<105, 100, 61, 65, 49>>  \* "id=A1"

TxtFnDen == <<102, 110, 61, 68, 101, 110>>  \* "fn=Den"

TxtMdUltra == <<109, 100, 61, 85, 108, 116, 114, 97>>  \* "md=Ultra"

TxtOther == <<118, 101, 61, 48, 53>>  \* "ve=05"

\* the values of the character strings above
StrA1 == <<65, 49>>  \* "A1"

StrDen == <<68, 101, 110>>  \* "Den"

StrUltra == <<85, 108, 116, 114, 97>>  \* "Ultra"
\* {"type":"PONG"}
JsPong ==
    <<123, 34, 116, 121, 112, 101, 34, 58, 34, 80, 79, 78, 71, 34, 125>>

\* {"type":"PING"}
JsPing ==
    <<123, 34, 116, 121, 112, 101, 34, 58, 34, 80, 73, 78, 71, 34, 125>>

\* {"x":1}
JsNoType ==
    <<123, 34, 120, 34, 58, 49, 125>>

\* {"availability":{"02834648":"APP_AVAILABLE"},"requestId":1,"responseType":"GET_APP_AVAILABILITY"}
JsAvail ==
    <<123, 34, 97, 118, 97, 105, 108, 97, 98, 105, 108, 105, 116, 121, 34,
        58, 123, 34, 48, 50, 56, 51, 52, 54, 52, 56, 34, 58, 34, 65, 80, 80,
        95, 65, 86, 65, 73, 76, 65, 66, 76, 69, 34, 125, 44, 34, 114, 101,
        113, 117, 101, 115, 116, 73, 100, 34, 58, 49, 44, 34, 114, 101, 115,
        112, 111, 110, 115, 101, 84, 121, 112, 101, 34, 58, 34, 71, 69, 84,
        95, 65, 80, 80, 95, 65, 86, 65, 73, 76, 65, 66, 73, 76, 73, 84, 89,
        34, 125>>

\* {"availability":{"02834648":"APP_UNAVAILABLE"},"requestId":1,"responseType":"GET_APP_AVAILABILITY"}
JsUnavail ==
    <<123, 34, 97, 118, 97, 105, 108, 97, 98, 105, 108, 105, 116, 121, 34,
        58, 123, 34, 48, 50, 56, 51, 52, 54, 52, 56, 34, 58, 34, 65, 80, 80,
        95, 85, 78, 65, 86, 65, 73, 76, 65, 66, 76, 69, 34, 125, 44, 34, 114,
        101, 113, 117, 101, 115, 116, 73, 100, 34, 58, 49, 44, 34, 114, 101,
        115, 112, 111, 110, 115, 101, 84, 121, 112, 101, 34, 58, 34, 71, 69,
        84, 95, 65, 80, 80, 95, 65, 86, 65, 73, 76, 65, 66, 73, 76, 73, 84,
        89, 34, 125>>

\* hello
TxtHello ==
    <<104, 101, 108, 108, 111>>

\* *
StrStar ==
    <<42>>

\* {"type": "PING"}
JsPingReq ==
    <<123, 34, 116, 121, 112, 101, 34, 58, 32, 34, 80, 73, 78, 71, 34, 125>>

\* {"type": "CONNECT"}
JsConnectReq ==
    <<123, 34, 116, 121, 112, 101, 34, 58, 32, 34, 67, 79, 78, 78, 69, 67, 84, 34, 125>>

\* {"type": "CLOSE"}
JsCloseReq ==
    <<123, 34, 116, 121, 112, 101, 34, 58, 32, 34, 67, 76, 79, 83, 69, 34,
        125>>

\* {"availability":{"02834648":"APP_AVAILABLE"},"requestId":2,"responseType":"GET_APP_AVAILABILITY"}
JsAvailTwo ==
    <<123, 34, 97, 118, 97, 105, 108, 97, 98, 105, 108, 105, 116, 121, 34,
        58, 123, 34, 48, 50, 56, 51, 52, 54, 52, 56, 34, 58, 34, 65, 80,
        80, 95, 65, 86, 65, 73, 76, 65, 66, 76, 69, 34, 125, 44, 34, 114,
        101, 113, 117, 101, 115, 116, 73, 100, 34, 58, 50, 44, 34, 114,
        101, 115, 112, 111, 110, 115, 101, 84, 121, 112, 101, 34, 58, 34,
        71, 69, 84, 95, 65, 80, 80, 95, 65, 86, 65, 73, 76, 65, 66, 73, 76,
        73, 84, 89, 34, 125>>

(***************************************************************************)
(* Octet helpers.                                                          *)
(***************************************************************************)
Min(S) == CHOOSE x \in S : \A y \in S : x <= y

Max(S) == CHOOSE x \in S : \A y \in S : x >= y

\* A C string: the octets in front of the first NUL.
CStr(s) ==
    LET z == {i \in 1..Len(s) : s[i] = 0}
    IN  IF z = {} THEN s ELSE SubSeq(s, 1, Min(z) - 1)

\* strncpy(dst, src, n) followed by dst[n - 1] = 0, read back as a C string.
StrNCpy(s, n) ==
    LET c == CStr(s) IN IF Len(c) > n - 1 THEN SubSeq(c, 1, n - 1) ELSE c

\* strncmp(s, prefix, Len(prefix)) == 0 on a C string s.
HasPrefix(s, p) == Len(s) >= Len(p) /\ SubSeq(s, 1, Len(p)) = p

\* Big-endian 16 and 32 bit values of an octet sequence ("n" and "N").
BE16(hi, lo) == hi * 256 + lo

Pack16(v) == <<(v \div 256) % 256, v % 256>>

Pack32(v) == <<(v \div 16777216) % 256, (v \div 65536) % 256,
               (v \div 256) % 256, v % 256>>

RECURSIVE Flatten(_)
Flatten(ss) == IF ss = <<>> THEN <<>> ELSE Head(ss) \o Flatten(Tail(ss))

(***************************************************************************)
(* Memory of the discovery message buffer.  msgBufferData is a 9000 octet  *)
(* stack array that castDiscover never clears: WXBuffer_Empty only resets  *)
(* length and offset, so the octets behind the current datagram are those  *)
(* of the query or of an earlier datagram.  mem holds the octets written   *)
(* so far; an octet of the array that was never written is uninitialized   *)
(* and reads as ub.u, an octet behind the array is outside the object.     *)
(***************************************************************************)
MDNS_MSG_LIMIT == 9000

OutOfArray == -1

Rd(mem, i, ub) ==
    IF i < Len(mem) THEN mem[i + 1]
    ELSE IF i < MDNS_MSG_LIMIT THEN ub.u ELSE OutOfArray

\* The n octets at offset i, or <<>> when one of them is outside the array.
RdSeq(mem, i, n, ub) ==
    IF i + n > MDNS_MSG_LIMIT THEN <<>>
    ELSE [k \in 1..n |-> Rd(mem, i + k - 1, ub)]

(***************************************************************************)
(* parseQName: the labels of a DNS name, following compression pointers.   *)
(* The loop state is (ptr, offset, limit, redirect, slen, segments).  st   *)
(* is "ok" when the loop ended and "crash" when it read outside the array. *)
(* When the loop comes back to a pointer target it had already jumped to,  *)
(* the same loop state repeats (offset no longer moves once redirect is    *)
(* set) and a segment is allocated on every round: the loop runs until the *)
(* allocator gives up, which either ends the process ("hung": the call     *)
(* never returns) or makes WXMalloc return NULL ("nomem": parseQName       *)
(* returns NULL).  ub.cycle is the one of the two that happens.            *)
(***************************************************************************)
IsPointer(slen) == slen \div 64 = 3

RECURSIVE parseQNameLoop(_, _, _, _, _, _, _, _, _, _)
parseQNameLoop(mem, length, ub, ptr, offset, limit, redirect, slen, segs, seen) ==
    IF ~(offset < limit)
    THEN [st |-> "ok", offset |-> offset, limit |-> limit, slen |-> slen,
          segs |-> segs]
    ELSE
    LET b0   == Rd(mem, ptr, ub)
        off1 == IF redirect THEN offset ELSE offset + 1
        jump == b0 # OutOfArray /\ IsPointer(b0)
        b1   == Rd(mem, ptr + 1, ub)
        targ == (b0 % 64) * 256 + b1
        off2 == IF ~jump THEN off1 ELSE IF redirect THEN off1 ELSE off1 + 1
        lim2 == IF jump THEN length ELSE limit
        red2 == redirect \/ jump
        sl2  == IF jump THEN Rd(mem, targ, ub) ELSE b0
        ptr2 == IF jump THEN targ + 1 ELSE ptr + 1
        frag == RdSeq(mem, ptr2, sl2, ub)
        bad  == [st |-> "crash", offset |-> off2, limit |-> lim2,
                 slen |-> 1, segs |-> segs]
    IN  IF b0 = OutOfArray \/ (jump /\ b1 = OutOfArray) \/ sl2 = OutOfArray
        THEN bad
        ELSE IF jump /\ targ \in seen
        THEN [st |-> ub.cycle, offset |-> off2, limit |-> lim2, slen |-> sl2,
              segs |-> segs]
        ELSE IF sl2 = 0
        THEN [st |-> "ok", offset |-> off2, limit |-> lim2, slen |-> 0,
              segs |-> segs]
        ELSE IF ptr2 + sl2 > MDNS_MSG_LIMIT THEN bad
        ELSE parseQNameLoop(mem, length, ub, ptr2 + sl2,
                            IF red2 THEN off2 ELSE off2 + sl2, lim2, red2, sl2,
                            Append(segs, CStr(frag)),
                            IF jump THEN seen \cup {targ} ELSE seen)

\* maxLen < 0 reads up to the end of the message and moves msgBuffer.offset.
\* names is the segment list, null the NULL return (an error, or no segment).
\* r is the state the loop ended in.
parseQNameReturn(offset, maxLen, r) ==
    LET err == r.st = "nomem" \/ r.offset > r.limit \/ r.slen # 0
    IN  [st     |-> IF r.st = "nomem" THEN "ok" ELSE r.st,
         names  |-> IF err THEN <<>> ELSE r.segs,
         null   |-> err \/ r.segs = <<>>,
         err    |-> err,
         offset |-> IF maxLen < 0 THEN r.offset ELSE offset]

parseQName(mem, length, offset, maxLen, ub) ==
    parseQNameReturn(offset, maxLen,
                     parseQNameLoop(mem, length, ub, offset, offset,
                                    IF maxLen < 0 THEN length ELSE offset + maxLen,
                                    FALSE, ub.slen, <<>>, {}))

(***************************************************************************)
(* skipQName: steps over a name; a pointer ends it.                        *)
(***************************************************************************)
\* The offset behind a pointer whose first octet is at offset: the octet
\* was counted when it was read, the second one is skipped.
AfterPointerFirstOctet(offset) == offset + 1

AfterPointer(offset) == offset + 2

RECURSIVE skipQNameLoop(_, _, _, _)
skipQNameLoop(mem, length, offset, slen) ==
    IF ~(offset < length) THEN [offset |-> offset, slen |-> slen]
    ELSE LET s == mem[offset + 1]
         IN  IF IsPointer(s) THEN [offset |-> AfterPointer(offset), slen |-> 0]
             ELSE IF s = 0 THEN [offset |-> offset + 1, slen |-> 0]
             ELSE skipQNameLoop(mem, length, offset + 1 + s, s)

skipQName(mem, length, offset, ub) ==
    LET r == skipQNameLoop(mem, length, offset, ub.slen)
    IN  [offset |-> r.offset,
         rc     |-> IF r.offset > length \/ r.slen # 0 THEN -1 ELSE 0]
(***************************************************************************)
(* WXBuffer_Unpack (toolkit buffer code, not part of these sources): reads *)
(* big-endian fields at the read offset and fails, reading nothing, when   *)
(* fewer octets than the format needs are left in the buffer.              *)
(***************************************************************************)
UnpackHeader(mem, length) ==
    IF length < 12 THEN [ok |-> FALSE]
    ELSE [ok |-> TRUE,
          rTxnId      |-> BE16(mem[1], mem[2]),
          rFlags      |-> BE16(mem[3], mem[4]),
          rQueries    |-> BE16(mem[5], mem[6]),
          rAnswers    |-> BE16(mem[7], mem[8]),
          rAuthority  |-> BE16(mem[9], mem[10]),
          rAdditional |-> BE16(mem[11], mem[12]),
          offset      |-> 12]

UnpackRecord(mem, length, offset) ==
    IF offset + 10 > length THEN [ok |-> FALSE]
    ELSE [ok |-> TRUE,
          rType  |-> BE16(mem[offset + 1], mem[offset + 2]),
          rClass |-> BE16(mem[offset + 3], mem[offset + 4]),
          rLen   |-> BE16(mem[offset + 9], mem[offset + 10]),
          offset |-> offset + 10]

(***************************************************************************)
(* inet_ntop (libc) on the source address of a datagram: dotted decimal    *)
(* for AF_INET; for AF_INET6 lowercase hextets without leading zeros, the  *)
(* first longest run of two or more zero hextets written as "::".          *)
(* An address is [family |-> 4 or 6, octets |-> 4 or 16 octets].           *)
(***************************************************************************)
Digit(d) == IF d < 10 THEN 48 + d ELSE 87 + d

Dec(n) ==
    IF n >= 100 THEN <<Digit(n \div 100), Digit((n \div 10) % 10), Digit(n % 10)>>
    ELSE IF n >= 10 THEN <<Digit(n \div 10), Digit(n % 10)>>
    ELSE <<Digit(n)>>

Hex(n) ==
    IF n >= 4096 THEN <<Digit(n \div 4096), Digit((n \div 256) % 16),
                        Digit((n \div 16) % 16), Digit(n % 16)>>
    ELSE IF n >= 256 THEN <<Digit(n \div 256), Digit((n \div 16) % 16), Digit(n % 16)>>
    ELSE IF n >= 16 THEN <<Digit(n \div 16), Digit(n % 16)>>
    ELSE <<Digit(n)>>

InetNtop4(o) == Dec(o[1]) \o <<46>> \o Dec(o[2]) \o <<46>> \o Dec(o[3]) \o <<46>> \o Dec(o[4])

\* Length of the run of zero hextets that starts at hextet i (1..8).
RECURSIVE ZeroRun(_, _)
ZeroRun(w, i) == IF i > 8 \/ w[i] # 0 THEN 0 ELSE 1 + ZeroRun(w, i + 1)

RECURSIVE Ntop6From(_, _, _, _)
Ntop6From(w, i, base, len) ==
    IF i > 8 THEN IF base # 0 /\ base + len = 9 THEN <<58>> ELSE <<>>
    ELSE IF base # 0 /\ i >= base /\ i < base + len
    THEN (IF i = base THEN <<58>> ELSE <<>>) \o Ntop6From(w, i + 1, base, len)
    ELSE (IF i # 1 THEN <<58>> ELSE <<>>) \o Hex(w[i]) \o Ntop6From(w, i + 1, base, len)

\* cvtIPv6, the formatter castDiscover applies to AAAA record data: four hex
\* digits for a hextet that is not zero, nothing for one that is.
Hex4(n) == <<Digit(n \div 4096), Digit((n \div 256) % 16), Digit((n \div 16) % 16),
            Digit(n % 16)>>

cvtIPv6(o) ==
    LET w == [i \in 1..8 |-> o[2 * i - 1] * 256 + o[2 * i]]
    IN  Flatten([i \in 1..8 |-> (IF w[i] # 0 THEN Hex4(w[i]) ELSE <<>>)
                                   \o (IF i # 8 THEN <<58>> ELSE <<>>)])

\* The source address formatted as castDiscover formats AAAA record data.
InetNtop6Plain(o) == cvtIPv6(o)

InetNtop6(o) ==
    LET w    == [i \in 1..8 |-> o[2 * i - 1] * 256 + o[2 * i]]
        best == Max({ZeroRun(w, i) : i \in 1..8})
        base == IF best < 2 THEN 0
                ELSE Min({i \in 1..8 : ZeroRun(w, i) = best})
    IN  Ntop6From(w, 1, base, best)

InetNtop(addr) ==
    IF addr.family = 4 THEN InetNtop4(addr.octets) ELSE InetNtop6(addr.octets)

(***************************************************************************)
(* The work record wrk (CastDeviceInfo): id, name and model as C strings,  *)
(* and the 40 octets that follow them: ipAddr[32], port (16 bit, low       *)
(* octet first) and the padding in front of the next pointer.  strcpy into *)
(* ipAddr has no length check, so a text of 32 or more characters runs     *)
(* into port and the padding.                                              *)
(***************************************************************************)
IpAddrSize == 32

TailSize == IpAddrSize + 8

DefaultPort == 8009

PutAt(s, i, v) == [k \in 1..Len(s) |-> IF k > i /\ k <= i + Len(v) THEN v[k - i] ELSE s[k]]

SetPort(tail, port) == PutAt(tail, IpAddrSize, <<port % 256, port \div 256>>)

WrkInit(text) ==
    [id    |-> <<>>,
     name  |-> <<>>,
     model |-> StrChromecast,
     tail  |-> PutAt(SetPort([k \in 1..TailSize |-> 0], DefaultPort), 0,
                     Append(text, 0))]

WrkIpAddr(w) == CStr(w.tail)

WrkPort(w) == w.tail[IpAddrSize + 1] + 256 * w.tail[IpAddrSize + 2]

(***************************************************************************)
(* The TXT character strings of one record (the while (rLen > 0) loop).    *)
(***************************************************************************)
KeyId == <<105, 100, 61>>

KeyFn == <<102, 110, 61>>

KeyMd == <<109, 100, 61>>

TxtApply(w, txt) ==
    IF HasPrefix(txt, KeyId) THEN [w EXCEPT !.id = SubSeq(txt, 4, Len(txt))]
    ELSE IF HasPrefix(txt, KeyFn) THEN [w EXCEPT !.name = SubSeq(txt, 4, Len(txt))]
    ELSE IF HasPrefix(txt, KeyMd) THEN [w EXCEPT !.model = SubSeq(txt, 4, Len(txt))]
    ELSE w

RECURSIVE txtLoop(_, _, _, _, _, _)
txtLoop(mem, ub, ptr, rLen, offset, w) ==
    IF rLen = 0 THEN [st |-> "ok", rLen |-> rLen, offset |-> offset, w |-> w]
    ELSE LET slen == Rd(mem, ptr, ub)
         IN  IF slen = OutOfArray \/ ptr + 1 + slen > MDNS_MSG_LIMIT
             THEN [st |-> "crash", rLen |-> rLen, offset |-> offset, w |-> w]
             ELSE IF slen >= rLen
             THEN [st |-> "ok", rLen |-> rLen, offset |-> offset, w |-> w]
             ELSE txtLoop(mem, ub, ptr + 1 + slen, rLen - (slen + 1),
                          offset + (slen + 1),
                          TxtApply(w, CStr(RdSeq(mem, ptr + 1, slen, ub))))

(***************************************************************************)
(* The authority and the additional records.  The steps of one round are   *)
(* operators of their own: the name skipped (sk), the record header (rec), *)
(* the record's data.                                                      *)
(***************************************************************************)
RECURSIVE authorityLoop(_, _, _, _, _, _)
authorityRecord(mem, length, ub, idx, rAuthority, sk, rec) ==
    IF sk.rc < 0 \/ ~rec.ok THEN [st |-> "bad", offset |-> sk.offset]
    ELSE authorityLoop(mem, length, ub, idx + 1, rAuthority, rec.offset + rec.rLen)

authorityName(mem, length, ub, idx, rAuthority, sk) ==
    authorityRecord(mem, length, ub, idx, rAuthority, sk,
                    UnpackRecord(mem, length, sk.offset))

authorityLoop(mem, length, ub, idx, rAuthority, offset) ==
    IF idx >= rAuthority THEN [st |-> "ok", offset |-> offset]
    ELSE authorityName(mem, length, ub, idx, rAuthority,
                       skipQName(mem, length, offset, ub))

RECURSIVE additionalLoop(_, _, _, _, _, _, _)
\* A TXT record, t being what the loop over its strings left.
additionalTxtAborts(mem, length, ub, idx, rAdditional, w, t) ==
    IF t.st = "crash" THEN [st |-> "crash", offset |-> t.offset, w |-> w]
    ELSE IF t.rLen > 0 THEN [st |-> "bad", offset |-> t.offset, w |-> w]
    ELSE additionalLoop(mem, length, ub, idx + 1, rAdditional, t.offset + t.rLen, t.w)

additionalTxt(mem, length, ub, idx, rAdditional, w, t) ==
    IF t.st = "crash" THEN [st |-> "crash", offset |-> t.offset, w |-> w]
    ELSE additionalLoop(mem, length, ub, idx + 1, rAdditional, t.offset + t.rLen, t.w)

additionalRecord(mem, length, ub, idx, rAdditional, w, sk, rec) ==
    IF sk.rc < 0 \/ ~rec.ok THEN [st |-> "bad", offset |-> sk.offset, w |-> w]
    ELSE IF rec.rType = 16
    THEN additionalTxt(mem, length, ub, idx, rAdditional, w,
                       txtLoop(mem, ub, rec.offset, rec.rLen, rec.offset, w))
    ELSE IF rec.rType = 33 /\ rec.rLen >= 6
    THEN LET hi == Rd(mem, rec.offset + 4, ub)
             lo == Rd(mem, rec.offset + 5, ub)
         IN  IF hi = OutOfArray \/ lo = OutOfArray
             THEN [st |-> "crash", offset |-> rec.offset, w |-> w]
             ELSE additionalLoop(mem, length, ub, idx + 1, rAdditional,
                                 rec.offset + rec.rLen,
                                 [w EXCEPT !.tail = SetPort(@, BE16(hi, lo))])
    ELSE additionalLoop(mem, length, ub, idx + 1, rAdditional,
                        rec.offset + rec.rLen, w)

additionalName(mem, length, ub, idx, rAdditional, w, sk) ==
    additionalRecord(mem, length, ub, idx, rAdditional, w, sk,
                     UnpackRecord(mem, length, sk.offset))

additionalLoop(mem, length, ub, idx, rAdditional, offset, w) ==
    IF idx >= rAdditional THEN [st |-> "ok", offset |-> offset, w |-> w]
    ELSE additionalName(mem, length, ub, idx, rAdditional, w,
                        skipQName(mem, length, offset, ub))

(***************************************************************************)
(* One datagram of castDiscover, from "Prepare to add a device information *)
(* record" to the end of the receive loop's body.  mem is msgBufferData    *)
(* after the datagram was appended, length the datagram's length.  out is  *)
(* "emit" (a record is appended), "continue" (the datagram is dropped),    *)
(* "break" (the receive loop of this family ends), "hung" or "crash".      *)
(* The steps follow the code: the header (hdr), the answer's name (ans),   *)
(* its record header (rec), the PTR data (ptr), the authority records      *)
(* (auth), the additional records (addl).  wrk0 is the record as first     *)
(* filled in.                                                              *)
(***************************************************************************)
ServiceName == <<_googlecast, _tcp, local>>

NoRecord(o, wrk0) == [out |-> o, wrk |-> wrk0]

datagramAdditional(wrk0, addl) ==
    IF addl.st = "crash" THEN NoRecord("crash", wrk0)
    ELSE IF addl.st # "ok" THEN NoRecord("continue", wrk0)
    ELSE [out |-> "emit", wrk |-> addl.w]

datagramAuthority(mem, length, ub, wrk0, wrk1, hdr, auth) ==
    IF auth.st # "ok" THEN NoRecord("continue", wrk0)
    ELSE datagramAdditional(wrk0,
             additionalLoop(mem, length, ub, 0, hdr.rAdditional, auth.offset, wrk1))

datagramPtr(mem, length, ub, wrk0, hdr, rec, ptr) ==
    IF ptr.st # "ok" THEN NoRecord(ptr.st, wrk0)
    ELSE datagramAuthority(mem, length, ub, wrk0,
             IF ptr.null THEN wrk0
             ELSE [wrk0 EXCEPT !.name = StrNCpy(ptr.names[1], 256)],
             hdr,
             authorityLoop(mem, length, ub, 0, hdr.rAuthority, rec.offset + rec.rLen))

datagramAnswer(mem, length, ub, wrk0, hdr, ans, rec) ==
    IF ans.null \/ ~rec.ok THEN NoRecord("break", wrk0)
    ELSE IF rec.rType # 12 \/ rec.rClass % 32768 # 1 THEN NoRecord("continue", wrk0)
    ELSE IF ans.names # ServiceName THEN NoRecord("continue", wrk0)
    ELSE datagramPtr(mem, length, ub, wrk0, hdr, rec,
                     parseQName(mem, length, rec.offset, rec.rLen, ub))

datagramName(mem, length, ub, wrk0, hdr, ans) ==
    IF ans.st # "ok" THEN NoRecord(ans.st, wrk0)
    ELSE datagramAnswer(mem, length, ub, wrk0, hdr, ans,
                        UnpackRecord(mem, length, ans.offset))

datagramHeader(mem, length, ub, wrk0, hdr) ==
    IF ~hdr.ok THEN NoRecord("continue", wrk0)
    ELSE IF hdr.rTxnId # 65261 \/ hdr.rFlags # 33792
            \/ hdr.rQueries # 0 \/ hdr.rAnswers # 1 THEN NoRecord("continue", wrk0)
    ELSE datagramName(mem, length, ub, wrk0, hdr, parseQName(mem, length, 12, -1, ub))

\* text is the source address as printed, copied into ipAddr by strcpy.
datagramSource(mem, length, ub, text, wrk0) ==
    IF Len(text) + 1 > TailSize \/ (Len(text) >= IpAddrSize /\ ub.fortify)
    THEN NoRecord("crash", wrk0)
    ELSE datagramHeader(mem, length, ub, wrk0, UnpackHeader(mem, length))

datagramRecord(mem, length, ub, text) ==
    datagramSource(mem, length, ub, text, WrkInit(text))

castDiscoverDatagram(mem, length, src, ub) ==
    datagramRecord(mem, length, ub, InetNtop(src))

\* The record handed to the caller (cptl_discover reads the strings back).
DeviceOf(w) ==
    [id |-> w.id, name |-> w.name, model |-> w.model,
     ipAddr |-> WrkIpAddr(w), port |-> WrkPort(w)]
(***************************************************************************)
(* The octets of DNS messages: the query castDiscover sends, and the       *)
(* responses the network can deliver to it.                                *)
(***************************************************************************)
Label(s) == <<Len(s)>> \o s

Labels(names) == Flatten([i \in 1..Len(names) |-> Label(names[i])])

QName(names) == Labels(names) \o <<0>>

PtrTo(target) == <<192 + target \div 256, target % 256>>

Header(rTxnId, rFlags, rQueries, rAnswers, rAuthority, rAdditional) ==
    Pack16(rTxnId) \o Pack16(rFlags) \o Pack16(rQueries) \o Pack16(rAnswers)
        \o Pack16(rAuthority) \o Pack16(rAdditional)

\* The two WXBuffer_Pack calls of castDiscover: header and the PTR question.
QueryMsg ==
    Header(65261, 0, 1, 0, 0, 0) \o QName(ServiceName) \o Pack16(12) \o Pack16(32769)

\* A resource record with a ttl of 120 seconds.
Record(owner, rType, rClass, rdata) ==
    owner \o Pack16(rType) \o Pack16(rClass) \o Pack32(120)
        \o Pack16(Len(rdata)) \o rdata

(***************************************************************************)
(* A response is described by its parts: the header counts, the answer's   *)
(* owner name and record data as octets, and the additional records; each  *)
(* additional record is a TXT record with its character strings, an SRV    *)
(* record with its port, or an A record.  cut octets are missing from the  *)
(* end of the datagram.                                                    *)
(***************************************************************************)
Txt(segs) == [t |-> 16, segs |-> segs, port |-> 0]

Srv(port) == [t |-> 33, segs |-> <<>>, port |-> port]

ARec == [t |-> 1, segs |-> <<>>, port |-> 0]

RData(a) ==
    IF a.t = 16 THEN Labels(a.segs)
    ELSE IF a.t = 33 THEN Pack16(0) \o Pack16(0) \o Pack16(a.port) \o Label(StrTV) \o PtrTo(12)
    ELSE <<10, 12, 1, 141>>

Encode(r) ==
    LET full == Header(r.txn, r.flags, r.qd, r.an, 0, Len(r.addl))
                    \o Record(r.name, r.rType, r.rClass, r.data)
                    \o Flatten([i \in 1..Len(r.addl) |->
                                  Record(PtrTo(12), r.addl[i].t, 1, RData(r.addl[i]))])
    IN  SubSeq(full, 1, Len(full) - r.cut)

\* Source addresses: an IPv4 host, a link-local IPv6 host and a global IPv6
\* host none of whose hextets is zero (39 characters as text).
SrcV4 == [family |-> 4, octets |-> <<192, 168, 1, 20>>]

SrcV6 == [family |-> 6, octets |-> <<254, 128, 0, 0, 0, 0, 0, 0, 0, 0, 0, 0, 0, 0, 0, 1>>]

SrcV6Long ==
    [family |-> 6,
     octets |-> <<32, 1, 13, 184, 133, 163, 18, 52, 86, 120, 138, 46, 19, 112, 115, 52>>]

\* The sources of the two canned datagrams (the inet_pton calls of test mode).
TstSrcOne == [family |-> 4, octets |-> <<10, 11, 12, 13>>]

TstSrcTwo ==
    [family |-> 6,
     octets |-> <<32, 22, 12, 216, 69, 103, 44, 208, 0, 0, 0, 0, 0, 0, 0, 18>>]

Good ==
    [txn |-> 65261, flags |-> 33792, qd |-> 0, an |-> 1,
     name |-> QName(ServiceName), rType |-> 12, rClass |-> 1,
     data |-> Label(StrTV) \o PtrTo(12),
     addl |-> <<>>, cut |-> 0, src |-> SrcV4]

AllTxt == Txt(<<TxtIdA1, TxtOther, TxtFnDen, TxtMdUltra>>)

\* A service enumeration response of another querier: its record data is
\* the name _googlecast._tcp.local, at offset 52 of the datagram.
Enumeration ==
    [Good EXCEPT !.txn = 0,
                 !.name = QName(<<Str_services, Str_dns_sd, Str_udp, local>>),
                 !.data = QName(ServiceName)]

Arrivals ==
    << [Good EXCEPT !.addl = <<AllTxt, Srv(8010), ARec>>],
       [Good EXCEPT !.addl = <<Srv(8010), ARec, AllTxt>>, !.src = SrcV6],
       Good,
       [Good EXCEPT !.rClass = 32769, !.addl = <<Txt(<<TxtMdUltra>>)>>],
       [Good EXCEPT !.addl = <<Srv(8009)>>, !.src = SrcV6Long],
       [Good EXCEPT !.src = SrcV6Long],
       Enumeration,
       [Good EXCEPT !.name = PtrTo(52), !.data = QName(<<StrTV>>)],
       [Good EXCEPT !.flags = 32768],
       [Good EXCEPT !.qd = 1],
       [Good EXCEPT !.an = 2],
       [Good EXCEPT !.rType = 16],
       [Good EXCEPT !.rClass = 3],
       [Good EXCEPT !.name = QName(<<_googlecast, local>>)],
       [Good EXCEPT !.cut = 20],
       [Good EXCEPT !.cut = 8],
       [Good EXCEPT !.name = Label(StrTV) \o PtrTo(12)] >>

ArrivalOctets == [i \in 1..Len(Arrivals) |-> Encode(Arrivals[i])]
(***************************************************************************)
(* State of the message channel: one connection, and the position of the   *)
(* one call (ping, availability check, or a receive with a caller's        *)
(* matcher) that is in progress on it.                                     *)
(***************************************************************************)
VARIABLES
    conn,       \* st: none or open; ssl: whether conn->ssl is set; requestId
    readMem,    \* octets of the read buffer's storage
    readLen,    \* conn->readBuffer.length
    stk,        \* what parseInboundMessages left in the stack slots of its locals
    tstresp,    \* _cptl_tstresp: none, pong, avail, unavail
    cpc,        \* idle, recv (in castReceiveMessage's loop), closing, returned, crash
    call,       \* the operation in progress or finished last, and its filters
    reqTimeout, \* castReceiveMessage's reqTimeout, in ticks
    nreads,     \* reads on this connection that returned data
    nconn,      \* connections opened so far
    inbuf,      \* the frames lying in the read buffer
    rx,         \* the frames that were in the buffer or arrived during this call
    mlog,       \* what became of each frame this call handled
    result,     \* how the call ended
    clog        \* what the latest castDeviceConnect and castDeviceClose did

chanVars ==
    <<conn, readMem, readLen, stk, tstresp, cpc, call, reqTimeout, nreads,
      nconn, inbuf, rx, mlog, result, clog>>

\* The filter of parseInboundMessages applied to one frame: the position
\* (off, drawn, applied), the filter arguments, the frame and what became of it.
VARIABLES fpc, fa, ff, fout

filtVars == <<fpc, fa, ff, fout>>

\* The frame encoder and decoder applied to one input: the position (off,
\* drawn, decoded), the input and what the decoder made of it.
VARIABLES kpc, kin, kout

codecVars == <<kpc, kin, kout>>
(***************************************************************************)
(* State.  Discovery: the test flag, the position of castDiscover, its     *)
(* arguments and locals, the list under construction, and a record of what *)
(* happened to each address family and to the datagram handled last.       *)
(***************************************************************************)
VARIABLES
    tstmode,    \* _cptl_tstmode
    dpc,        \* where castDiscover is: idle (no call since the test flag was set),
                \* family, recv, returned, hung, crash
    ipMode,     \* argument of castDiscover
    waitTm,     \* argument of castDiscover, after the configuration fallback
    modeIdx,    \* the family loop's index, 1 (IPv4) or 2 (IPv6)
    timeout,    \* what is left of the wait window, in ticks
    msgMem,     \* msgBufferData: the octets written so far
    devices,    \* the list retVal .. last, each record with the datagram it is from
    famLog,     \* per family: how its pass went
    nrecv,      \* datagrams read from the network in this call
    lastDgram   \* the datagram handled last, how it ended and the time left then

discVars ==
    <<tstmode, dpc, ipMode, waitTm, modeIdx, timeout, msgMem, devices, famLog,
      nrecv, lastDgram>>

\* Ticks in the longest wait window, and datagrams the network delivers to
\* one castDiscover call.
MaxWait == 2

MaxDgrams == 2

\* CPTL_G(discoveryTimeout), in ticks.
discoveryTimeout == MaxWait

\* What an uninitialized octet reads as, what the uninitialized slen holds,
\* whether strcpy is a checked build's (it aborts on overflow), and how a
\* pointer cycle ends.
UBChoices ==
    { [u |-> 0, slen |-> 0, fortify |-> FALSE, cycle |-> "hung"],
      [u |-> 255, slen |-> 1, fortify |-> TRUE, cycle |-> "nomem"],
      [u |-> 0, slen |-> 1, fortify |-> FALSE, cycle |-> "nomem"] }

NoDgram == [arr |-> -1, out |-> "none", left |-> 0]

\* (modeIdx & ipMode) != 0 for modeIdx 1 and 2.
SelectedAny(idx, mode) == TRUE

Selected(idx, mode) == (mode \div idx) % 2 = 1

DiscInit ==
    /\ tstmode = 0
    /\ dpc = "idle"
    /\ ipMode = 0
    /\ waitTm = 0
    /\ modeIdx = 1
    /\ timeout = 0
    /\ msgMem = <<>>
    /\ devices = <<>>
    /\ famLog = [f \in 1..2 |-> "none"]
    /\ nrecv = 0
    /\ lastDgram = NoDgram

\* cptl_testctl.  The flag is set between calls, and not on a connection that
\* has read data.
TestCtl(mode) ==
    /\ dpc \in {"idle", "returned"}
    /\ cpc \in {"idle", "returned"}
    /\ nreads = 0
    /\ tstmode' = mode
    /\ dpc' = "idle"
    /\ UNCHANGED <<ipMode, waitTm, modeIdx, timeout, msgMem, devices, famLog,
                   nrecv, lastDgram>>
    /\ UNCHANGED <<chanVars, filtVars, codecVars>>

\* castDiscover up to the family loop.  msgBufferData is a fresh stack array.
DiscoverBegin(mode, wait) ==
    /\ dpc \in {"idle", "returned"}
    /\ dpc' = "family"
    /\ ipMode' = mode
    /\ waitTm' = IF wait <= 0 THEN discoveryTimeout ELSE wait
    /\ modeIdx' = 1
    /\ timeout' = 0
    /\ msgMem' = <<>>
    /\ devices' = <<>>
    /\ famLog' = [f \in 1..2 |-> "none"]
    /\ nrecv' = 0
    /\ lastDgram' = NoDgram
    /\ UNCHANGED tstmode
    /\ UNCHANGED <<chanVars, filtVars, codecVars>>

\* The family loop's head: a family the mode does not select is passed over.
FamilySkip ==
    /\ dpc = "family" /\ modeIdx <= 2 /\ ~Selected(modeIdx, ipMode)
    /\ modeIdx' = modeIdx + 1
    /\ famLog' = [famLog EXCEPT ![modeIdx] = "skipped"]
    /\ UNCHANGED <<tstmode, dpc, ipMode, waitTm, timeout, msgMem, devices, nrecv,
                   lastDgram>>
    /\ UNCHANGED <<chanVars, filtVars, codecVars>>

\* Socket, non-blocking state, multicast options, query: the first step that
\* fails ends this family's pass with a warning.
SetupOutcomes == {"ok", "open_failed", "nonblock_failed", "multicast_failed", "send_failed"}

PutMem(mem, octets) == octets \o SubSeq(mem, Len(octets) + 1, Len(mem))

\* Where the family loop goes on after a step of family idx failed: the
\* continue statement takes it to the next family.
SetupFailedEnds(idx) == 3

SetupFailed(idx) == idx + 1

FamilySetup(o) ==
    /\ dpc = "family" /\ modeIdx <= 2 /\ Selected(modeIdx, ipMode)
    /\ IF o = "ok"
       THEN /\ dpc' = "recv"
            /\ timeout' = waitTm
            /\ msgMem' = PutMem(msgMem, QueryMsg)
            /\ famLog' = [famLog EXCEPT ![modeIdx] = "receiving"]
            /\ UNCHANGED modeIdx
       ELSE /\ modeIdx' = SetupFailed(modeIdx)
            /\ famLog' = [famLog EXCEPT ![modeIdx] = o]
            /\ msgMem' = IF o = "send_failed" THEN PutMem(msgMem, QueryMsg) ELSE msgMem
            /\ UNCHANGED <<dpc, timeout>>
    /\ UNCHANGED <<tstmode, ipMode, waitTm, devices, nrecv, lastDgram>>
    /\ UNCHANGED <<chanVars, filtVars, codecVars>>

DiscoverReturn ==
    /\ dpc = "family" /\ modeIdx > 2
    /\ dpc' = "returned"
    /\ UNCHANGED <<tstmode, ipMode, waitTm, modeIdx, timeout, msgMem, devices, famLog,
                   nrecv, lastDgram>>
    /\ UNCHANGED <<chanVars, filtVars, codecVars>>

\* while (timeout > 0) is false: the family's pass is over.
RecvLoopExit ==
    /\ dpc = "recv" /\ timeout <= 0
    /\ dpc' = "family"
    /\ modeIdx' = modeIdx + 1
    /\ famLog' = [famLog EXCEPT ![modeIdx] =
                     IF @ = "receiving" THEN "expired" ELSE @]
    /\ UNCHANGED <<tstmode, ipMode, waitTm, timeout, msgMem, devices, nrecv, lastDgram>>
    /\ UNCHANGED <<chanVars, filtVars, codecVars>>
(***************************************************************************)
(* One round of the receive loop.  WXSocket_Wait returns READ with the     *)
(* time that is left (none, when the data came in at the deadline), or     *)
(* TIMEOUT with nothing left, or an error; WXSocket_RecvFrom returns the   *)
(* length of a datagram, 0 when there is nothing to read, or an error.     *)
(***************************************************************************)
EndPass(why, left) ==
    /\ dpc' = "family"
    /\ modeIdx' = modeIdx + 1
    /\ timeout' = left
    /\ famLog' = [famLog EXCEPT ![modeIdx] = why]

\* The wait times out outside test mode, or fails: break.
RecvWaitEnds(rc) ==
    /\ dpc = "recv" /\ timeout > 0
    /\ rc \in {"TIMEOUT", "ERROR"}
    /\ rc = "TIMEOUT" => tstmode = 0
    /\ EndPass(IF rc = "TIMEOUT" THEN "timeout" ELSE "wait_error",
               IF rc = "TIMEOUT" THEN 0 ELSE timeout)
    /\ UNCHANGED <<tstmode, ipMode, waitTm, msgMem, devices, nrecv, lastDgram>>
    /\ UNCHANGED <<chanVars, filtVars, codecVars>>

\* Outside test mode the read yields nothing or fails: break.
RecvFails(left) ==
    /\ dpc = "recv" /\ timeout > 0 /\ tstmode = 0
    /\ left \in 0..timeout
    /\ EndPass("recv_error", left)
    /\ UNCHANGED <<tstmode, ipMode, waitTm, msgMem, devices, nrecv, lastDgram>>
    /\ UNCHANGED <<chanVars, filtVars, codecVars>>

\* The effect of a decoded datagram on the loop.
Handle(r, mem, arr, left, log) ==
    /\ msgMem' = mem
    /\ lastDgram' = [arr |-> arr, out |-> r.out, left |-> left]
    /\ timeout' = left
    /\ devices' = IF r.out = "emit"
                  THEN Append(devices, [rec |-> DeviceOf(r.wrk), arr |-> arr,
                                        fam |-> modeIdx])
                  ELSE devices
    /\ IF r.out \in {"hung", "crash"}
       THEN dpc' = r.out /\ UNCHANGED <<modeIdx, famLog>>
       ELSE IF r.out = "break"
       THEN /\ dpc' = "family"
            /\ modeIdx' = modeIdx + 1
            /\ famLog' = [famLog EXCEPT ![modeIdx] = "bad_answer"]
       ELSE /\ famLog' = [famLog EXCEPT ![modeIdx] = log]
            /\ UNCHANGED <<dpc, modeIdx>>

\* Outside test mode a datagram is read and decoded.
RecvDatagram(left, arr, ub) ==
    /\ dpc = "recv" /\ timeout > 0 /\ tstmode = 0
    /\ left \in 0..timeout
    /\ nrecv < MaxDgrams
    /\ nrecv' = nrecv + 1
    /\ LET mem == PutMem(msgMem, ArrivalOctets[arr])
       IN  Handle(castDiscoverDatagram(mem, Len(ArrivalOctets[arr]),
                                       Arrivals[arr].src, ub),
                  mem, arr, left, "receiving")
    /\ UNCHANGED <<tstmode, ipMode, waitTm>>
    /\ UNCHANGED <<chanVars, filtVars, codecVars>>

\* Test mode: whatever the socket delivers is passed over, unless the read
\* yields nothing with no time left.  got tells whether a datagram was read.
RecvIgnored(left, got) ==
    /\ dpc = "recv" /\ timeout > 0 /\ tstmode # 0
    /\ left \in 0..timeout
    /\ got => nrecv < MaxDgrams
    /\ nrecv' = IF got THEN nrecv + 1 ELSE nrecv
    /\ timeout' = left
    /\ UNCHANGED <<tstmode, dpc, ipMode, waitTm, modeIdx, msgMem, devices, famLog,
                   lastDgram>>
    /\ UNCHANGED <<chanVars, filtVars, codecVars>>

\* Test mode, nothing read and no time left: the family's canned datagram.
RecvCanned(ub) ==
    /\ dpc = "recv" /\ timeout > 0 /\ tstmode # 0
    /\ LET octets == IF modeIdx = 1 THEN tstRespOne ELSE tstRespTwo
           src    == IF modeIdx = 1 THEN TstSrcOne ELSE TstSrcTwo
           mem    == PutMem(msgMem, octets)
       IN  Handle(castDiscoverDatagram(mem, Len(octets), src, ub), mem, 0, 0, "canned")
    /\ UNCHANGED <<tstmode, ipMode, waitTm, nrecv>>
    /\ UNCHANGED <<chanVars, filtVars, codecVars>>

DiscNext ==
    \/ \E mode \in 0..2 : TestCtl(mode)
    \/ \E mode \in 0..3, wait \in 0..MaxWait : DiscoverBegin(mode, wait)
    \/ FamilySkip
    \/ \E o \in SetupOutcomes : FamilySetup(o)
    \/ DiscoverReturn
    \/ RecvLoopExit
    \/ \E rc \in {"TIMEOUT", "ERROR"} : RecvWaitEnds(rc)
    \/ \E left \in 0..MaxWait : RecvFails(left)
    \/ \E left \in 0..MaxWait, arr \in 1..Len(Arrivals), ub \in UBChoices :
          RecvDatagram(left, arr, ub)
    \/ \E left \in 0..MaxWait, got \in BOOLEAN : RecvIgnored(left, got)
    \/ \E ub \in UBChoices : RecvCanned(ub)
(***************************************************************************)
(* The message channel.  A frame is a 4 octet big-endian length followed   *)
(* by the fields of a CastMessage; a field is a tag (index * 8 + wire      *)
(* type) and, by wire type, a varint or a length and that many octets.     *)
(***************************************************************************)
Varint(n) == IF n < 128 THEN <<n>> ELSE <<128 + (n % 128), n \div 128>>

VarintField(idx, v) == <<idx * 8>> \o Varint(v)

BytesField(idx, s) == <<idx * 8 + 2>> \o Varint(Len(s)) \o s

Frame(body) == Pack32(Len(body)) \o body

\* The namespaces array and the CastNamespace values.
namespaces == <<NsConnection, NsDeviceAuth, NsHeartbeat, NsReceiver>>

NS_ANY == -1

NS_CONNECTION == 0

NS_HEARTBEAT == 2

NS_RECEIVER == 3

NS_UNKNOWN == 9999

NS_COUNT == 4

\* castSendMessage: the frame it writes.  dataLen < 0 sends data as a string.
castSendMessageFrame(fromSenderSession, toPortalReceiver, namespace, data, dataLen) ==
    LET senderId   == IF fromSenderSession # 0 THEN StrCastptlNnn ELSE StrSender0
        receiverId == IF toPortalReceiver # 0 THEN StrCastptl000 ELSE StrReceiver0
    IN  Frame(VarintField(1, 0) \o BytesField(2, senderId) \o BytesField(3, receiverId)
                  \o BytesField(4, namespaces[namespace + 1])
                  \o (IF dataLen < 0
                      THEN VarintField(5, 0) \o BytesField(6, CStr(data))
                      ELSE VarintField(5, 1) \o BytesField(7, SubSeq(data, 1, dataLen))))

(***************************************************************************)
(* WXJSON_Decode (toolkit JSON code, not part of these sources), as a      *)
(* table over the texts that occur: a JSON object with its members, or an  *)
(* error value for a text that is no JSON.  id names the decoded value.    *)
(***************************************************************************)
JString(s) == [t |-> "string", s |-> s]

JNumber == [t |-> "number", s |-> ""]

JObject(id, members) == [t |-> "object", id |-> id, f |-> members]

JError == [t |-> "error", id |-> "error", f |-> <<>>]

applicationId == "02834648"

JsonTable ==
    << [text |-> JsPong, val |-> JObject("JsPong", [type |-> JString("PONG")])],
       [text |-> JsPing, val |-> JObject("JsPing", [type |-> JString("PING")])],
       [text |-> JsNoType, val |-> JObject("JsNoType", [x |-> JNumber])],
       [text |-> JsAvail,
        val  |-> JObject("JsAvail",
                   [availability |-> JObject("", applicationId :> JString("APP_AVAILABLE")),
                    requestId    |-> JNumber,
                    responseType |-> JString("GET_APP_AVAILABILITY")])],
       [text |-> JsUnavail,
        val  |-> JObject("JsUnavail",
                   [availability |-> JObject("", applicationId :> JString("APP_UNAVAILABLE")),
                    requestId    |-> JNumber,
                    responseType |-> JString("GET_APP_AVAILABILITY")])],
       [text |-> JsAvailTwo,
        val  |-> JObject("JsAvailTwo",
                   [availability |-> JObject("", applicationId :> JString("APP_AVAILABLE")),
                    requestId    |-> JNumber,
                    responseType |-> JString("GET_APP_AVAILABILITY")])] >>

WXJSON_Decode(text) ==
    IF \E i \in 1..Len(JsonTable) : JsonTable[i].text = text
    THEN JsonTable[CHOOSE i \in 1..Len(JsonTable) : JsonTable[i].text = text].val
    ELSE JError

\* WXHash_GetEntry on the members of an object; NoEntry stands for NULL.
NoEntry == [t |-> "null", s |-> ""]

WXHash_GetEntry(obj, key) == IF key \in DOMAIN obj.f THEN obj.f[key] ELSE NoEntry

(***************************************************************************)
(* The matchers.  A matcher's result is NULL, the error sentinel, or a     *)
(* pointer: to one of the marker strings, or to the JSON value it was      *)
(* given (k = "json", v the value's id).                                   *)
(***************************************************************************)
RespNull == [k |-> "null", v |-> ""]

CPTL_RESP_ERROR == [k |-> "error", v |-> ""]

Marker(s) == [k |-> "marker", v |-> s]

validatePongResponse(val) ==
    LET respType == WXHash_GetEntry(val, "type")
    IN  IF respType.t # "string" THEN CPTL_RESP_ERROR
        ELSE IF respType.s = "PONG" THEN Marker("PONG")
        ELSE RespNull

parseAvailabilityResponse(val) ==
    LET respType    == WXHash_GetEntry(val, "responseType")
        availData   == WXHash_GetEntry(val, "availability")
        availStatus == WXHash_GetEntry(availData, applicationId)
    IN  IF respType.t # "string" \/ respType.s # "GET_APP_AVAILABILITY"
        THEN CPTL_RESP_ERROR
        ELSE IF availData.t # "object" THEN CPTL_RESP_ERROR
        ELSE IF availStatus.t # "string" THEN CPTL_RESP_ERROR
        ELSE IF availStatus.s = "APP_AVAILABLE" THEN Marker("APP_AVAILABLE")
        ELSE IF availStatus.s = "APP_UNAVAILABLE" THEN Marker("APP_UNAVAILABLE")
        ELSE CPTL_RESP_ERROR

\* A caller's matcher that keeps the JSON value of a PONG, passes over a PING
\* and an empty binary payload, takes any other binary payload and reports
\* an error for everything else.
keepPong(isJson, val, contentLen) ==
    IF ~isJson THEN (IF contentLen = 0 THEN RespNull ELSE Marker("binary"))
    ELSE LET respType == WXHash_GetEntry(val, "type")
         IN  IF respType.t # "string" THEN CPTL_RESP_ERROR
             ELSE IF respType.s = "PONG" THEN [k |-> "json", v |-> val.id]
             ELSE RespNull

\* (*responseCallback)(conn, content, contentLen)
Callback(cb, isJson, val, contentLen) ==
    IF cb = "validatePongResponse" THEN validatePongResponse(val)
    ELSE IF cb = "parseAvailabilityResponse" THEN parseAvailabilityResponse(val)
    ELSE keepPong(isJson, val, contentLen)
(***************************************************************************)
(* The rolling read buffer.  mem holds the octets of the buffer's storage  *)
(* that were written so far, length is readBuffer.length: the octets from  *)
(* length on are left over from frames consumed earlier.  A storage octet  *)
(* never written reads as ub.u.                                            *)
(***************************************************************************)
\* Numbers of 2^28 and more are folded into this one, which is larger than
\* any offset or length of a buffer.
Big == 268435456

NullPtr == -1

WildPtr == -2

RdB(mem, i, ub) == IF i >= 0 /\ i < Len(mem) THEN mem[i + 1] ELSE ub.u

RdBSeq(mem, i, n, ub) == [k \in 1..n |-> RdB(mem, i + k - 1, ub)]

\* mem with octets written at offset i.
Poke(mem, i, octets, ub) ==
    LET base == mem \o [k \in 1..(i - Len(mem)) |-> ub.u]
    IN  SubSeq(base, 1, i) \o octets \o SubSeq(base, i + Len(octets) + 1, Len(base))

\* WXBuffer_Append at the end of the buffer's content.
AppendBuffer(mem, length, octets) ==
    SubSeq(mem, 1, length) \o octets \o SubSeq(mem, length + Len(octets) + 1, Len(mem))

\* Every buffered octet is dropped, whatever len is.
consumeBufferAll(mem, length, len) ==
    [mem |-> SubSeq(mem, length + 1, Len(mem)) \o SubSeq(mem, 1, length), length |-> 0]

\* consumeBuffer: memmove of what follows the first len octets.
consumeBuffer(mem, length, len) ==
    [mem    |-> SubSeq(mem, len + 1, length) \o SubSeq(mem, length - len + 1, Len(mem)),
     length |-> length - len]

\* WXBuffer_Unpack "y" (toolkit buffer code): a base-128 varint at offset;
\* it fails when the buffer's content ends inside the varint.
RECURSIVE UnpackVarint(_, _, _, _, _)
UnpackVarint(mem, length, offset, mult, acc) ==
    IF offset >= length THEN [ok |-> FALSE, v |-> 0, offset |-> offset]
    ELSE LET b == mem[offset + 1]
         IN  IF b < 128
             THEN [ok |-> TRUE, offset |-> offset + 1,
                   v |-> IF mult >= Big THEN Big ELSE Min({Big, acc + b * mult})]
             ELSE UnpackVarint(mem, length, offset + 1,
                               IF mult >= Big THEN Big ELSE mult * 128,
                               IF mult >= Big THEN 0 ELSE acc + (b - 128) * mult)

\* One field read: the value, and whether the read worked and left the
\* offset in front of the frame's end.
ReadVarint(mem, length, offset, msgLimit) ==
    LET r == UnpackVarint(mem, length, offset, 1, 0)
    IN  [ok |-> r.ok /\ r.offset < msgLimit,
         v |-> r.v, offset |-> r.offset]

(***************************************************************************)
(* The fragment loop of parseInboundMessages.  s holds the locals: offset, *)
(* msgProtoVersion, namespace, contentType, isSenderSession,               *)
(* isPortalReceiver, content (an offset into the storage, or NullPtr),     *)
(* contentLen, fragLen, fragVarInt, and err once the code went to          *)
(* msg_error.  content, contentLen and fragLen are not set anew for a      *)
(* frame.                                                                  *)
(***************************************************************************)
SenderIdField(mem, s, fragLen, ub) ==
    IF fragLen = 10 /\ RdBSeq(mem, s.offset, 10, ub) = StrReceiver0
    THEN [s EXCEPT !.isPortalReceiver = 0, !.fragLen = fragLen]
    ELSE [s EXCEPT !.isPortalReceiver = 1, !.fragLen = 999]

ReceiverIdField(mem, s, fragLen, ub) ==
    IF fragLen = 8 /\ RdBSeq(mem, s.offset, 8, ub) = StrSender0
    THEN [s EXCEPT !.isSenderSession = 0, !.fragLen = fragLen]
    ELSE [s EXCEPT !.isSenderSession = 1, !.fragLen = 999]

NamespaceField(mem, s, fragLen, ub) ==
    LET hit == {idx \in 0..(NS_COUNT - 1) :
                   /\ fragLen = Len(namespaces[idx + 1])
                   /\ RdBSeq(mem, s.offset, fragLen, ub) = namespaces[idx + 1]}
    IN  [s EXCEPT !.namespace = IF hit = {} THEN @ ELSE Min(hit),
                  !.fragLen = fragLen]

Fragment(mem, s, fragIdx, fragType, fragLen, fragVarInt, ub) ==
    LET s1 == [s EXCEPT !.fragLen = fragLen, !.fragVarInt = fragVarInt]
        s2 == IF fragIdx = 1
              THEN IF fragType # 0 THEN [s1 EXCEPT !.err = TRUE]
                   ELSE [s1 EXCEPT !.msgProtoVersion = fragVarInt]
              ELSE IF fragIdx = 2 THEN SenderIdField(mem, s1, fragLen, ub)
              ELSE IF fragIdx = 3 THEN ReceiverIdField(mem, s1, fragLen, ub)
              ELSE IF fragIdx = 4 THEN NamespaceField(mem, s1, fragLen, ub)
              ELSE IF fragIdx = 5
              THEN IF fragType # 0 \/ fragVarInt \notin {0, 1}
                   THEN [s1 EXCEPT !.err = TRUE]
                   ELSE [s1 EXCEPT !.contentType = fragVarInt]
              ELSE IF fragIdx \in {6, 7}
              THEN [s1 EXCEPT !.content = s.offset, !.contentLen = fragLen]
              ELSE [s1 EXCEPT !.err = TRUE]
    IN  IF s2.err THEN s2 ELSE [s2 EXCEPT !.offset = Min({Big, @ + s2.fragLen})]

RECURSIVE fragmentLoop(_, _, _, _, _)
\* n is the state after the fragment's case.
fragmentNext(mem, length, msgLimit, ub, n) ==
    IF n.err THEN n ELSE fragmentLoop(mem, length, msgLimit, n, ub)

\* Wire types 0 (a varint value) and 2 (a length): val is what was read.
fragmentValue(mem, length, msgLimit, s, ub, fragIdx, fragType, val) ==
    IF ~val.ok THEN [s EXCEPT !.err = TRUE]
    ELSE IF fragType = 0
    THEN fragmentNext(mem, length, msgLimit, ub,
                      Fragment(mem, [s EXCEPT !.offset = val.offset], fragIdx, 0, 0,
                               val.v, ub))
    ELSE fragmentNext(mem, length, msgLimit, ub,
                      Fragment(mem, [s EXCEPT !.offset = val.offset], fragIdx, 2,
                               val.v, s.fragVarInt, ub))

\* tag is the fragment's key as read.
fragmentTag(mem, length, msgLimit, s, ub, tag) ==
    IF ~tag.ok THEN [s EXCEPT !.err = TRUE]
    ELSE IF tag.v % 8 \in {0, 2}
    THEN fragmentValue(mem, length, msgLimit, s, ub, tag.v \div 8, tag.v % 8,
                       ReadVarint(mem, length, tag.offset, msgLimit))
    ELSE IF tag.v % 8 \in {3, 4} THEN [s EXCEPT !.err = TRUE]
    ELSE fragmentNext(mem, length, msgLimit, ub,
                      Fragment(mem, [s EXCEPT !.offset = tag.offset], tag.v \div 8,
                               tag.v % 8,
                               IF tag.v % 8 = 1 THEN 8
                               ELSE IF tag.v % 8 = 5 THEN 4 ELSE s.fragLen,
                               s.fragVarInt, ub))

fragmentLoop(mem, length, msgLimit, s, ub) ==
    IF ~(s.offset < msgLimit) THEN s
    ELSE fragmentTag(mem, length, msgLimit, s, ub,
                     ReadVarint(mem, length, s.offset, msgLimit))
\* "Pretty much everything is required".
Incomplete(s) ==
    \/ s.msgProtoVersion # 0
    \/ s.namespace = NS_UNKNOWN
    \/ s.isSenderSession < 0
    \/ s.isPortalReceiver < 0
    \/ s.contentType = -1
    \/ s.content = NullPtr

\* The filter "with any's": a holds forSenderSession, fromPortalReceiver,
\* targNamespace and expJsonResponse.
Mismatch(want, is) ==
    want >= 0 /\ ((want # 0 /\ is = 0) \/ (want = 0 /\ is # 0))

SessionMismatch(forSenderSession, isSenderSession) ==
    forSenderSession >= 0
        /\ (\/ (forSenderSession # 0 /\ isSenderSession # 0)
            \/ (forSenderSession = 0 /\ isSenderSession # 0))

Matched(a, s) ==
    /\ ~SessionMismatch(a.forSenderSession, s.isSenderSession)
    /\ ~Mismatch(a.fromPortalReceiver, s.isPortalReceiver)
    /\ (a.targNamespace # NS_ANY => s.namespace = a.targNamespace)
    /\ ~(a.expJsonResponse >= 0
           /\ (\/ (s.contentType = 0 /\ a.expJsonResponse = 0)
               \/ (s.contentType # 0 /\ a.expJsonResponse # 0)))

(***************************************************************************)
(* parseInboundMessages.  loc holds the locals that live across frames     *)
(* (content, contentLen, fragLen, fragVarInt).  The result has the buffer, *)
(* the return value, the locals, and for every frame handled an event:     *)
(* what became of it (error, filtered, badjson, passed), the id of the     *)
(* JSON value the matcher got, the matcher's result, and the octets taken  *)
(* from the buffer.  st is "crash" when a wild content pointer or a huge    *)
(* content length was used.  msgLen + 4 is computed in 32 bits, so the     *)
(* four largest prefixes wrap to a limit of 0 to 3.  The steps of one      *)
(* frame are operators of their own.                                       *)
(***************************************************************************)
Event(what, json, res, taken) ==
    [what |-> what, json |-> json, res |-> res, taken |-> taken, freed |-> 0]

\* The calls of WXJSON_Destroy on the value decoded for a frame (json is
\* its name, "" for a binary payload) when the matcher returned res: the
\* value is destroyed unless it is the matcher's return value.
DestroyedAlways(json, res) == IF json # "" THEN 1 ELSE 0

Destroyed(json, res) ==
    IF json # "" /\ res # [k |-> "json", v |-> json] THEN 1 ELSE 0

\* The event of a frame that was given to the matcher.
Presented(json, res, taken) ==
    [Event("passed", json, res, taken) EXCEPT !.freed = Destroyed(json, res)]

\* The event of a frame whose text did not decode: the error value is
\* destroyed.
Undecoded(taken) == [Event("badjson", "", RespNull, taken) EXCEPT !.freed = 1]

\* The locals a frame leaves behind.
LocalsOf(s, content) ==
    [content |-> content, contentLen |-> s.contentLen, fragLen |-> s.fragLen,
     fragVarInt |-> s.fragVarInt]

Outcome8(b, retval, loc, events, st) ==
    [mem |-> b.mem, length |-> b.length, retval |-> retval, loc |-> loc,
     events |-> events, st |-> st]

\* The frame's length prefix, and msgLen + 4 in 32 bits.
MsgLen(mem) ==
    IF BE16(mem[1], mem[2]) >= 4096 THEN Big
    ELSE BE16(mem[1], mem[2]) * 65536 + BE16(mem[3], mem[4])

MsgLimit(mem) ==
    IF BE16(mem[1], mem[2]) = 65535 /\ BE16(mem[3], mem[4]) >= 65532
    THEN BE16(mem[3], mem[4]) - 65532
    ELSE MsgLen(mem) + 4

RECURSIVE parseInboundLoop(_, _, _, _, _, _)
\* The frame is consumed (b is the buffer after that) and the loop goes on.
frameDone(b, a, loc, events, ub) ==
    parseInboundLoop(b.mem, b.length, a, loc, events, ub)

\* The matcher returned res for the frame; b is the buffer without the frame.
frameMatcher(b, a, loc, events, ub, msgLimit, json, res) ==
    IF res = RespNull
    THEN frameDone(b, a, loc, Append(events, Presented(json, res, msgLimit)), ub)
    ELSE Outcome8(b, res, loc, Append(events, Presented(json, res, msgLimit)), "ok")

\* A JSON payload: mem1 is the storage after the text was moved one octet
\* down and terminated, jsonVal the decoded value.
frameJson(mem1, length, a, s, events, ub, msgLimit, jsonVal) ==
    IF jsonVal.t = "error"
    THEN frameDone(consumeBuffer(mem1, length, msgLimit), a, LocalsOf(s, s.content - 1),
                   Append(events, Undecoded(msgLimit)), ub)
    ELSE frameMatcher(consumeBuffer(mem1, length, msgLimit), a,
                      LocalsOf(s, s.content - 1), events, ub, msgLimit, jsonVal.id,
                      Callback(a.cb, TRUE, jsonVal, -1))

frameText(mem1, length, a, s, events, ub, msgLimit) ==
    frameJson(mem1, length, a, s, events, ub, msgLimit,
              WXJSON_Decode(CStr(RdBSeq(mem1, s.content - 1, s.contentLen + 1, ub))))

\* s is the state the fragment loop ended in.
frameParsed(mem, length, a, events, ub, msgLen, msgLimit, s) ==
    IF s.err \/ s.offset # msgLimit \/ Incomplete(s)
    THEN IF msgLen # 0
         THEN Outcome8(consumeBuffer(mem, length, msgLimit), CPTL_RESP_ERROR,
                       LocalsOf(s, s.content),
                       Append(events, Event("error", "", CPTL_RESP_ERROR, msgLimit)), "ok")
         ELSE Outcome8([mem |-> mem, length |-> length], CPTL_RESP_ERROR,
                       LocalsOf(s, s.content),
                       Append(events, Event("error", "", CPTL_RESP_ERROR, 0)), "ok")
    ELSE IF ~Matched(a, s)
    THEN frameDone(consumeBuffer(mem, length, msgLimit), a, LocalsOf(s, s.content),
                   Append(events, Event("filtered", "", RespNull, msgLimit)), ub)
    ELSE IF s.content = WildPtr \/ s.contentLen >= Big
    THEN Outcome8([mem |-> mem, length |-> length], RespNull, LocalsOf(s, s.content),
                  events, "crash")
    ELSE IF s.contentType = 0
    THEN frameText(Poke(mem, s.content - 1,
                        Append(RdBSeq(mem, s.content, s.contentLen, ub), 0), ub),
                   length, a, s, events, ub, msgLimit)
    ELSE frameMatcher(consumeBuffer(mem, length, msgLimit), a, LocalsOf(s, s.content),
                      events, ub, msgLimit, "",
                      Callback(a.cb, FALSE, JError, s.contentLen))

\* The decoder's state at the first fragment of a frame.
FrameStart(loc) ==
    [offset |-> 4, msgProtoVersion |-> -1, namespace |-> NS_UNKNOWN,
     contentType |-> -1, isSenderSession |-> -1, isPortalReceiver |-> -1,
     content |-> loc.content, contentLen |-> loc.contentLen,
     fragLen |-> loc.fragLen, fragVarInt |-> loc.fragVarInt, err |-> FALSE]

frameFields(mem, length, a, loc, events, ub, msgLen, msgLimit) ==
    IF length < msgLimit
    THEN Outcome8([mem |-> mem, length |-> length], RespNull, loc, events, "ok")
    ELSE frameParsed(mem, length, a, events, ub, msgLen, msgLimit,
                     fragmentLoop(mem, length, msgLimit, FrameStart(loc), ub))

parseInboundLoop(mem, length, a, loc, events, ub) ==
    IF length < 4
    THEN Outcome8([mem |-> mem, length |-> length], RespNull, loc, events, "ok")
    ELSE frameFields(mem, length, a, loc, events, ub, MsgLen(mem), MsgLimit(mem))

parseInboundMessages(mem, length, a, loc, ub) ==
    parseInboundLoop(mem, length, a, loc, <<>>, ub)
(***************************************************************************)
(* Frames the device sends.  A frame is described by its source and        *)
(* destination ids, its namespace, payload_type, the index of the payload  *)
(* field (6: payload_utf8, 7: payload_binary) and the payload; a frame of  *)
(* shape "bare" has no payload field and carries its namespace last, one   *)
(* of shape "empty" is a length prefix of 0 and nothing else, and one of   *)
(* shape "stray" has, in front of its payload field, the key of a field    *)
(* of index 6 and wire type 6.                                             *)
(***************************************************************************)
DevFrame(src, dst, ns, ptype, tag, payload, shape) ==
    [src |-> src, dst |-> dst, ns |-> ns, ptype |-> ptype, tag |-> tag,
     payload |-> payload, shape |-> shape]

StrayKey == 6 * 8 + 6

FrameOctets(f) ==
    IF f.shape = "empty" THEN Frame(<<>>)
    ELSE IF f.shape = "stray"
    THEN Frame(VarintField(1, 0) \o BytesField(2, f.src) \o BytesField(3, f.dst)
                   \o BytesField(4, f.ns) \o VarintField(5, f.ptype)
                   \o <<StrayKey>> \o BytesField(f.tag, f.payload))
    ELSE IF f.shape = "bare"
    THEN Frame(VarintField(1, 0) \o BytesField(2, f.src) \o BytesField(3, f.dst)
                   \o VarintField(5, f.ptype) \o BytesField(4, f.ns))
    ELSE Frame(VarintField(1, 0) \o BytesField(2, f.src) \o BytesField(3, f.dst)
                   \o BytesField(4, f.ns) \o VarintField(5, f.ptype)
                   \o BytesField(f.tag, f.payload))

Frames ==
    << DevFrame(StrReceiver0, StrSender0, NsHeartbeat, 0, 6, JsPong, "full"),
       DevFrame(StrReceiver0, StrSender0, NsHeartbeat, 0, 6, JsPing, "full"),
       DevFrame(StrReceiver0, StrSender0, NsHeartbeat, 0, 6, JsNoType, "full"),
       DevFrame(StrReceiver0, StrSender0, NsReceiver, 0, 6, JsAvail, "full"),
       DevFrame(StrReceiver0, StrSender0, NsReceiver, 0, 6, JsUnavail, "full"),
       DevFrame(StrReceiver0, StrSender0, NsConnection, 0, 6, JsPong, "full"),
       DevFrame(StrReceiver0, StrSender0, NsHeartbeat, 0, 6, <<>>, "bare"),
       DevFrame(StrReceiver0, StrSender0, NsReceiver, 1, 7, JsAvail, "full"),
       DevFrame(StrReceiver0, StrSender0, NsReceiver, 0, 6, <<>>, "bare"),
       DevFrame(StrReceiver0, StrStar, NsReceiver, 0, 6, JsPing, "full"),
       DevFrame(StrReceiver0, StrSender0, NsHeartbeat, 0, 6, TxtHello, "full"),
       DevFrame(StrReceiver0, StrSender0, NsHeartbeat, 1, 7, <<1, 2, 3>>, "full"),
       DevFrame(StrReceiver0, StrSender0, NsReceiver, 0, 6, JsAvailTwo, "full"),
       DevFrame(<<>>, <<>>, <<>>, 0, 6, <<>>, "empty") >>

\* What one SSL_read returns: one or two whole frames, by their numbers.
Chunks ==
    { <<1>>, <<2>>, <<3>>, <<4>>, <<5>>, <<7>>, <<9>>, <<11>>,
      <<6, 7>>, <<8, 9>>, <<2, 1>>, <<3, 1>>, <<10, 4>>, <<1, 1>>, <<13>>, <<14>> }

RECURSIVE ChunkOctets(_)
ChunkOctets(c) ==
    IF c = <<>> THEN <<>> ELSE FrameOctets(Frames[Head(c)]) \o ChunkOctets(Tail(c))

\* The frames of a chunk as they lie in the buffer: number and length.
ChunkFrames(c) == [k \in 1..Len(c) |-> [id |-> c[k], len |-> Len(FrameOctets(Frames[c[k]]))]]

\* Octets and frames of every chunk.
ChunkTable == [c \in Chunks |-> [octets |-> ChunkOctets(c), frames |-> ChunkFrames(c)]]

\* The canned responses of the test mode, and the frame each of them is.
TstResp(name) ==
    IF name = "pong" THEN _tstPongResp
    ELSE IF name = "avail" THEN _appAvailResp
    ELSE IF name = "unavail" THEN _appUnavailResp
    ELSE <<>>

TstRespFrame(name) ==
    IF name = "pong" THEN 1 ELSE IF name = "avail" THEN 4 ELSE 5

\* Reads that return data on one connection, and the message timeout in ticks.
MaxReads == 2

\* Connections opened in one run.
MaxConns == 1

MaxTicks == 1

messageTimeout == MaxTicks

ReadBufferSize == 1024

NoLocals == [content |-> NullPtr, contentLen |-> 0, fragLen |-> 0, fragVarInt |-> 0]

WildLocals == [content |-> WildPtr, contentLen |-> Big, fragLen |-> Big, fragVarInt |-> Big]

\* What the uninitialized locals of parseInboundMessages hold: zeroes
\* (fresh), what the previous call left in the same slots (kept), or
\* anything else (wild).  u is an octet read outside the octets written.
ChanUB == { [u |-> 0, locals |-> l] : l \in {"fresh", "kept", "wild"} }

LocalsAt(ub, kept) ==
    IF ub.locals = "fresh" THEN NoLocals
    ELSE IF ub.locals = "kept" THEN kept ELSE WildLocals

NoCall == [op |-> "none", a |-> [forSenderSession |-> -1, fromPortalReceiver |-> -1,
                               targNamespace |-> NS_ANY, expJsonResponse |-> -1,
                               cb |-> "none"],
           requestId |-> -1, on |-> 0]

\* Nothing connected or closed yet.
NoLog ==
    [steps |-> <<>>, failed |-> "", wrote |-> <<>>, held |-> {}, close |-> <<>>,
     closes |-> 0, pend |-> 0]

NoResult == [rv |-> RespNull, rc |-> 0, why |-> "none", sent |-> FALSE, warn |-> {}]

ChanInit ==
    /\ conn = [st |-> "none", ssl |-> FALSE, requestId |-> 0]
    /\ readMem = <<>>
    /\ readLen = 0
    /\ stk = NoLocals
    /\ tstresp = "none"
    /\ cpc = "idle"
    /\ call = NoCall
    /\ reqTimeout = 0
    /\ nreads = 0
    /\ nconn = 0
    /\ inbuf = <<>>
    /\ rx = <<>>
    /\ mlog = <<>>
    /\ result = NoResult
    /\ clog = NoLog
(***************************************************************************)
(* Which frame of the buffer an event of parseInboundMessages is about.    *)
(* q is the frames lying in the buffer.  An event that took as many octets *)
(* as the first frame is long is about that frame; one that took nothing   *)
(* leaves it in front; any other count means the frame boundaries are lost *)
(* (frame 0 from then on).                                                 *)
(***************************************************************************)
RECURSIVE Attribute(_, _, _)
Attribute(events, q, log) ==
    IF events = <<>> THEN [log |-> log, q |-> q]
    ELSE LET e    == Head(events)
             fid  == IF q # <<>> /\ (e.taken = q[1].len \/ e.taken = 0) THEN q[1].id ELSE 0
             q2   == IF q = <<>> THEN q
                     ELSE IF e.taken = q[1].len THEN Tail(q)
                     ELSE IF e.taken = 0 THEN q
                     ELSE <<>>
         IN  Attribute(Tail(events), q2,
                       Append(log, [fid |-> fid, what |-> e.what, json |-> e.json,
                                    res |-> e.res, taken |-> e.taken,
                                    freed |-> e.freed]))

Ids(q) == [k \in 1..Len(q) |-> q[k].id]

\* The test path of castSendMessage and castReceiveMessage.
TestPath == tstmode # 0 /\ ~conn.ssl

\* castReceiveMessage's return for what parseInboundMessages returned.
ReturnValueRaw(retval) == retval

ReturnValue(retval) == IF retval = CPTL_RESP_ERROR THEN RespNull ELSE retval

WarnPing == "Failed to obtain PONG response to PING request"

WarnNoAvail == "Unable to obtain availability response"

WarnUnavailable == "Target application is not available on device"

\* What the operation returns for castReceiveMessage's return value rv.
Outcome(op, rv, why, warn) ==
    LET bad(w) == [rv |-> rv, rc |-> -1, why |-> why, sent |-> TRUE, warn |-> warn \cup {w}]
        good   == [rv |-> rv, rc |-> 0, why |-> why, sent |-> TRUE, warn |-> warn]
    IN  IF op = "ping"
        THEN IF rv # Marker("PONG") THEN bad(WarnPing) ELSE good
        ELSE IF op = "avail"
        THEN IF rv # Marker("APP_AVAILABLE") /\ rv # Marker("APP_UNAVAILABLE")
             THEN bad(WarnNoAvail)
             ELSE IF rv = Marker("APP_UNAVAILABLE") THEN bad(WarnUnavailable)
             ELSE good
        ELSE good

\* Where the binding's function is when the operation has returned rc:
\* cptl_device_ping closes the resource when castDevicePing failed, which
\* runs the resource's destructor and with it castDeviceClose; the other
\* functions return.
AfterCallKeepsOpen(op, rc) == "returned"

AfterCall(op, rc) == IF op = "ping" /\ rc < 0 THEN "closing" ELSE "returned"

Return(rv, why, warn) ==
    /\ cpc' = AfterCall(call.op, Outcome(call.op, rv, why, warn).rc)
    /\ result' = Outcome(call.op, rv, why, warn)

\* SSL_write: skipped on the test path; on a NULL ssl it fails or faults.
SendOutcomes ==
    IF TestPath THEN {"ok"} ELSE IF conn.ssl THEN {"ok", "fail"} ELSE {"fail", "crash"}

\* The request id the operation hands to castReceiveMessage: the
\* connection's counter after the increment, 1 in test mode, -1 for a Ping.
\* castReceiveMessage as defined has no such parameter and
\* parseInboundMessages never reads a requestId member: the value is
\* recorded with the call and has no effect on it.
RequestIdArg(op, c) ==
    IF op = "avail" THEN (IF tstmode # 0 THEN 1 ELSE c.requestId) ELSE -1

\* An operation up to castReceiveMessage's loop: o is how the send went.
Begin(op, a, resp, o, warn, c) ==
    /\ cpc \in {"idle", "returned"}
    /\ conn.st = "open"
    /\ conn' = c
    /\ IF o = "crash"
       THEN /\ cpc' = "crash"
            /\ UNCHANGED <<tstresp, call, reqTimeout, rx, mlog, result>>
       ELSE /\ call' = [op |-> op, a |-> a, requestId |-> RequestIdArg(op, c),
                         on |-> nconn]
            /\ mlog' = <<>>
            /\ IF o = "fail"
               THEN /\ cpc' = AfterCall(op, -1)
                    /\ result' = [rv |-> RespNull, rc |-> -1, why |-> "send",
                                  sent |-> FALSE, warn |-> {warn}]
                    /\ rx' = <<>>
                    /\ UNCHANGED <<tstresp, reqTimeout>>
               ELSE /\ cpc' = "recv"
                    /\ result' = [NoResult EXCEPT !.sent = TRUE]
                    /\ rx' = Ids(inbuf)
                    /\ tstresp' = resp
                    /\ reqTimeout' = messageTimeout
    /\ UNCHANGED <<readMem, readLen, stk, nreads, nconn, inbuf, clog>>
    /\ UNCHANGED <<discVars, filtVars, codecVars>>

PingArgs ==
    [forSenderSession |-> 0, fromPortalReceiver |-> 0, targNamespace |-> NS_HEARTBEAT,
     expJsonResponse |-> 1, cb |-> "validatePongResponse"]

AvailArgs ==
    [forSenderSession |-> 0, fromPortalReceiver |-> 0, targNamespace |-> NS_RECEIVER,
     expJsonResponse |-> 1, cb |-> "parseAvailabilityResponse"]

\* "Just in case a malformed resource gets destroyed": conn == NULL.
NoConn(op) ==
    /\ cpc \in {"idle", "returned"}
    /\ conn.st = "none"
    /\ cpc' = "returned"
    /\ call' = [op |-> op, a |-> NoCall.a, requestId |-> -1, on |-> nconn]
    /\ result' = [rv |-> RespNull, rc |-> -1, why |-> "noconn", sent |-> FALSE,
                  warn |-> {}]
    /\ rx' = <<>>
    /\ mlog' = <<>>
    /\ UNCHANGED <<conn, readMem, readLen, stk, tstresp, reqTimeout, nreads, nconn,
                   inbuf, clog>>
    /\ UNCHANGED <<discVars, filtVars, codecVars>>

castDevicePing(o) ==
    \/ NoConn("ping")
    \/ /\ o \in SendOutcomes
       /\ Begin("ping", PingArgs, "pong", o, "Failed to issue PING request", conn)

MaxRequestId == 2

castAppCheckAvailability(o) ==
    \/ NoConn("avail")
    \/ /\ conn.requestId < MaxRequestId
       /\ o \in SendOutcomes
       /\ Begin("avail", AvailArgs, IF tstmode = 1 THEN "avail" ELSE "unavail", o,
                "Failed to issue application availability request",
                [conn EXCEPT !.requestId = @ + 1])

\* The filters of a caller's own receive.
RecvPresets ==
    { [forSenderSession |-> 0, fromPortalReceiver |-> 0, targNamespace |-> NS_HEARTBEAT,
       expJsonResponse |-> 1, cb |-> "keepPong"],
      [forSenderSession |-> -1, fromPortalReceiver |-> -1, targNamespace |-> NS_ANY,
       expJsonResponse |-> -1, cb |-> "keepPong"] }

\* A caller's own receive: nothing is sent, the canned response stays.
castReceiveMessage(a) ==
    /\ a \in RecvPresets
    /\ Begin("recv", a, tstresp, "ok", "", conn)
(***************************************************************************)
(* One round of castReceiveMessage's loop.  The call is in the loop while  *)
(* cpc = "recv"; a round that ends the loop also returns.                  *)
(***************************************************************************)
\* WXBuffer_Empty on the read buffer.
Flush ==
    /\ readLen' = 0
    /\ inbuf' = <<>>
    /\ UNCHANGED <<readMem, stk>>

\* The effect of parseInboundMessages' result r on the call; att tells
\* which frames its events were about.
Parsed(r, att, frames) ==
    /\ readMem' = r.mem
    /\ readLen' = r.length
    /\ stk' = r.loc
    /\ inbuf' = att.q
    /\ rx' = rx \o Ids(frames)
    /\ mlog' = mlog \o att.log
    /\ UNCHANGED reqTimeout
    /\ IF r.st = "crash"
       THEN cpc' = "crash" /\ UNCHANGED result
       ELSE IF r.retval # RespNull
       THEN Return(ReturnValue(r.retval), "matcher", {})
       ELSE UNCHANGED <<cpc, result>>

Appended(r, frames) == Parsed(r, Attribute(r.events, inbuf \o frames, <<>>), frames)

\* rc octets were read: append them and parse.  frames are the frames the
\* octets hold; the storage is grown for what does not fit, which can fail.
Deliver(octets, frames, ub, grown) ==
    IF ~grown
    THEN /\ Flush
         /\ Return(RespNull, "nomem", {"Error assembling read response"})
         /\ UNCHANGED <<rx, mlog, reqTimeout>>
    ELSE Appended(parseInboundMessages(AppendBuffer(readMem, readLen, octets),
                                       readLen + Len(octets), call.a,
                                       LocalsAt(ub, stk), ub),
                  frames)

Grows(n) == IF readLen + n > ReadBufferSize THEN BOOLEAN ELSE {TRUE}

\* The test path: the canned response is "read".  Without a canned response
\* rc is 0 and SSL_get_error is called on the NULL ssl.
RecvCannedFrame(ub, o) ==
    /\ cpc = "recv"
    /\ TestPath
    /\ IF tstresp = "none"
       THEN /\ IF o = "crash"
               THEN cpc' = "crash" /\ UNCHANGED <<result, readLen, inbuf, readMem, stk>>
               ELSE Flush /\ Return(RespNull, "ssl", {"Failed to read inbound content"})
            /\ UNCHANGED <<rx, mlog, reqTimeout, nreads>>
       ELSE /\ o = "fail"
            /\ nreads < MaxReads
            /\ nreads' = nreads + 1
            /\ \E grown \in Grows(Len(TstResp(tstresp))) :
                  Deliver(TstResp(tstresp),
                          <<[id |-> TstRespFrame(tstresp), len |-> Len(TstResp(tstresp))]>>,
                          ub, grown)
    /\ UNCHANGED <<conn, tstresp, call, nconn, clog>>
    /\ UNCHANGED <<discVars, filtVars, codecVars>>

\* SSL_read returned the octets of chunk c.
RecvData(c, ub) ==
    /\ cpc = "recv"
    /\ ~TestPath
    /\ conn.ssl
    /\ nreads < MaxReads
    /\ nreads' = nreads + 1
    /\ \E grown \in Grows(Len(ChunkTable[c].octets)) :
          Deliver(ChunkTable[c].octets, ChunkTable[c].frames, ub, grown)
    /\ UNCHANGED <<conn, tstresp, call, nconn, clog>>
    /\ UNCHANGED <<discVars, filtVars, codecVars>>

\* SSL_read wants to read: WXSocket_Wait with what is left of the timeout.
RecvWait(wrc, left) ==
    /\ cpc = "recv"
    /\ ~TestPath
    /\ conn.ssl
    /\ left <= reqTimeout
    /\ reqTimeout' = left
    /\ IF wrc = "READ_REQUIRED"
       THEN /\ IF left > 0 THEN UNCHANGED <<cpc, result>>
               ELSE Return(RespNull, "expired", {})
            /\ UNCHANGED <<readMem, readLen, stk, inbuf>>
       ELSE /\ Flush
            /\ IF wrc = "TIMEOUT"
               THEN Return(RespNull, "timeout", {"Timeout on wait for socket response"})
               ELSE Return(RespNull, "wait", {"Error in socket READ_WAIT"})
    /\ UNCHANGED <<conn, tstresp, call, nreads, nconn, rx, mlog, clog>>
    /\ UNCHANGED <<discVars, filtVars, codecVars>>

\* SSL_read failed with a protocol error; on a NULL ssl it fails or faults.
RecvSslError(o) ==
    /\ cpc = "recv"
    /\ ~TestPath
    /\ o = "crash" => ~conn.ssl
    /\ IF o = "crash"
       THEN cpc' = "crash" /\ UNCHANGED <<result, readLen, inbuf, readMem, stk>>
       ELSE Flush /\ Return(RespNull, "ssl", {"Failed to read inbound content"})
    /\ UNCHANGED <<conn, tstresp, call, reqTimeout, nreads, nconn, rx, mlog,
                   clog>>
    /\ UNCHANGED <<discVars, filtVars, codecVars>>

(***************************************************************************)
(* Connections.                                                            *)
(***************************************************************************)
FreshConn(ssl) ==
    /\ conn' = [st |-> "open", ssl |-> ssl, requestId |-> 0]
    /\ readMem' = <<>>
    /\ readLen' = 0
    /\ inbuf' = <<>>
    /\ nreads' = 0
    /\ nconn' = nconn + 1

\* The steps of castDeviceConnect outside test mode, in the order of the
\* code: the TCP connection, the SSL context, the SSL object with its BIO,
\* the handshake, the CONNECT message.
ConnectSteps == <<"tcp", "ctx", "ssl", "handshake", "CONNECT">>

\* How castDeviceConnect can go: all steps succeed, or one of them fails.
ConnectOutcomes == {"ok", "tcp", "ctx", "ssl", "handshake", "CONNECT"}

\* The steps that succeeded before the step o failed.
RECURSIVE StepsBefore(_, _)
StepsBefore(o, steps) ==
    IF steps = <<>> \/ Head(steps) = o THEN <<>>
    ELSE <<Head(steps)>> \o StepsBefore(o, Tail(steps))

StepsDone(o) == IF o = "ok" THEN ConnectSteps ELSE StepsBefore(o, ConnectSteps)

\* Whether castDeviceConnect returns the connection when step o failed.
ReturnsHandleSendIgnored(o) == o \in {"ok", "CONNECT"}

ReturnsHandle(o) == o = "ok"

\* What the steps done have allocated: the connection object with its read
\* buffer comes first, before the TCP connection.
Allocated(steps) ==
    {"conn"} \cup (IF steps = <<>> THEN {} ELSE {"socket"})
             \cup { r \in {"sslCtx", "ssl"} :
                      \E k \in 1..Len(steps) : steps[k] = (IF r = "sslCtx" THEN "ctx" ELSE r) }

\* castDeviceClose's release: the socket if there is one, the read buffer
\* and the connection object.  Nothing else is released.
ReleasedByClose == {"socket", "conn"}

CloseSteps(held, w) ==
    <<(IF w = "ok" THEN "CLOSE" ELSE "CLOSE failed")>>
       \o (IF "socket" \in held THEN <<"socket">> ELSE <<>>) \o <<"buffer", "conn">>

ConnectFrame == castSendMessageFrame(0, 0, NS_CONNECTION, JsConnectReq, -1)

CloseFrame == castSendMessageFrame(0, 0, NS_CONNECTION, JsCloseReq, -1)

\* How the CLOSE of castDeviceConnect's failure paths can go: none is sent
\* when all went well, and none when the TCP connection failed (the
\* function returns at once); SSL_write on a NULL ssl fails or faults.
CleanupOutcomes(o) ==
    IF o \in {"ok", "tcp"} THEN {"none"}
    ELSE IF o \in {"ctx", "ssl"} THEN {"fail", "crash"}
    ELSE {"ok", "fail"}

\* The log of a castDeviceConnect outside test mode in which step o failed
\* (or none) and the CLOSE of the failure path went as w says.
ConnectLog(o, w) ==
    [steps  |-> StepsDone(o),
     failed |-> IF o = "ok" THEN "" ELSE o,
     wrote  |-> (IF o = "ok" THEN <<ConnectFrame>> ELSE <<>>)
                   \o (IF w = "ok" THEN <<CloseFrame>> ELSE <<>>),
     held   |-> IF o \in {"ok", "tcp"} \/ w = "crash" THEN Allocated(StepsDone(o))
                ELSE Allocated(StepsDone(o)) \ ReleasedByClose,
     close  |-> IF w \in {"ok", "fail"} THEN CloseSteps(Allocated(StepsDone(o)), w) ELSE <<>>,
     closes |-> IF w \in {"ok", "fail"} THEN 1 ELSE 0, pend |-> 0]

\* The connection of the test mode: no socket, no ssl, nothing sent.
TestLog == [NoLog EXCEPT !.held = {"conn"}]

\* castDeviceConnect: in test mode a connection without socket and ssl;
\* otherwise TCP, TLS and the CONNECT message, each of which can fail: the
\* failure paths after the TCP connection go through castDeviceClose.
castDeviceConnect(o, w) ==
    /\ cpc \in {"idle", "returned"}
    /\ conn.st = "none"
    /\ nconn < MaxConns
    /\ IF tstmode # 0
       THEN /\ o = "ok" /\ w = "none"
            /\ FreshConn(FALSE)
            /\ clog' = TestLog
            /\ UNCHANGED cpc
       ELSE /\ w \in CleanupOutcomes(o)
            /\ clog' = ConnectLog(o, w)
            /\ cpc' = IF w = "crash" THEN "crash" ELSE cpc
            /\ IF ReturnsHandle(o) THEN FreshConn(TRUE)
               ELSE UNCHANGED <<conn, readMem, readLen, inbuf, nreads, nconn>>
    /\ UNCHANGED <<stk, tstresp, call, reqTimeout, rx, mlog, result>>
    /\ UNCHANGED <<discVars, filtVars, codecVars>>

\* castDeviceClose: the CLOSE message (its failure is ignored), then the
\* socket, the buffer and the connection are released.  It is run by the
\* destructor of the resource, when cptl_device_close closes the resource,
\* when cptl_device_ping closes it after a failed ping (cpc = "closing"),
\* or when the resource is destroyed; a closed resource has no connection
\* and its destructor does not run again.
castDeviceClose(o) ==
    /\ cpc \in {"idle", "returned", "closing"}
    /\ conn.st = "open"
    /\ o \in SendOutcomes
    /\ IF o = "crash"
       THEN cpc' = "crash" /\ UNCHANGED <<conn, readMem, readLen, inbuf, nreads, clog>>
       ELSE /\ conn' = [st |-> "none", ssl |-> FALSE, requestId |-> 0]
            /\ readMem' = <<>>
            /\ readLen' = 0
            /\ inbuf' = <<>>
            /\ nreads' = 0
            /\ clog' = [clog EXCEPT !.wrote = IF o = "ok" /\ ~TestPath
                                               THEN Append(@, CloseFrame) ELSE @,
                                    !.held = @ \ ReleasedByClose,
                                    !.close = CloseSteps(clog.held, o),
                                    !.closes = @ + 1]
            /\ cpc' = IF cpc = "closing" THEN "returned" ELSE cpc
    /\ UNCHANGED <<stk, tstresp, call, reqTimeout, nconn, rx, mlog, result>>
    /\ UNCHANGED <<discVars, filtVars, codecVars>>

\* The canned response an operation selects before it receives:
\* _cptl_tstresp, a variable of the process and not of the connection.
CannedFor(op) ==
    IF op = "ping" THEN "pong" ELSE IF tstmode = 1 THEN "avail" ELSE "unavail"

\* castDevicePing or castAppCheckAvailability of another execution context
\* on another connection comes to its receive while this connection's call
\* is in its loop: it has set _cptl_tstresp for itself.  Nothing else of
\* what it writes is read by this connection, and _cptl_tstresp is read on
\* the test path only.
OtherConnExchange(op) ==
    /\ cpc = "recv"
    /\ TestPath
    /\ tstresp' = CannedFor(op)
    /\ UNCHANGED <<conn, readMem, readLen, stk, cpc, call, reqTimeout, nreads, nconn,
                   inbuf, rx, mlog, result, clog>>
    /\ UNCHANGED <<discVars, filtVars, codecVars>>

ChanNext ==
    \/ \E o \in ConnectOutcomes, w \in {"none", "ok", "fail", "crash"} :
          castDeviceConnect(o, w)
    \/ \E o \in {"ok", "fail", "crash"} : castDeviceClose(o)
    \/ \E o \in {"ok", "fail", "crash"} : castDevicePing(o)
    \/ \E o \in {"ok", "fail", "crash"} : castAppCheckAvailability(o)
    \/ \E a \in RecvPresets : castReceiveMessage(a)
    \/ \E ub \in ChanUB, o \in {"fail", "crash"} : RecvCannedFrame(ub, o)
    \/ \E c \in Chunks, ub \in ChanUB : RecvData(c, ub)
    \/ \E wrc \in {"READ_REQUIRED", "TIMEOUT", "ERROR"}, left \in 0..MaxTicks :
          RecvWait(wrc, left)
    \/ \E o \in {"fail", "crash"} : RecvSslError(o)
    \/ \E op \in {"ping", "avail"} : OtherConnExchange(op)
(***************************************************************************)
(* The filter on its own: every combination of the four filter arguments   *)
(* against one frame in an empty buffer.                                   *)
(***************************************************************************)
FilterArgs ==
    { [forSenderSession |-> s, fromPortalReceiver |-> r, targNamespace |-> n,
       expJsonResponse |-> j, cb |-> "keepPong"] :
          s \in {-1, 0, 1}, r \in {-1, 0, 1},
          n \in {NS_ANY, NS_CONNECTION, NS_HEARTBEAT, NS_RECEIVER}, j \in {-1, 0, 1} }

FilterFrames ==
    << DevFrame(StrReceiver0, StrSender0, NsHeartbeat, 0, 6, JsPong, "full"),
       DevFrame(StrReceiver0, StrSender0, NsReceiver, 0, 6, JsPong, "full"),
       DevFrame(StrReceiver0, StrSender0, NsConnection, 1, 7, <<1, 2, 3>>, "full"),
       DevFrame(StrReceiver0, StrSender0, NsHeartbeat, 1, 7, <<1, 2, 3>>, "full"),
       DevFrame(StrCastptl000, StrSender0, NsHeartbeat, 0, 6, JsPong, "full"),
       DevFrame(StrReceiver0, StrCastptlNnn, NsHeartbeat, 0, 6, JsPong, "full"),
       DevFrame(StrCastptl000, StrCastptlNnn, NsReceiver, 0, 6, JsPong, "full"),
       DevFrame(StrReceiver0, StrStar, NsReceiver, 0, 6, JsPong, "full"),
       DevFrame(StrReceiver0, StrSender0, NsHeartbeat, 1, 6, JsPong, "full"),
       DevFrame(StrReceiver0, StrSender0, NsHeartbeat, 0, 7, JsPong, "full"),
       DevFrame(StrReceiver0, StrSender0, NsHeartbeat, 0, 6, JsPong, "stray") >>

FilterOff ==
    /\ fpc = "off"
    /\ fa = NoCall.a
    /\ ff = 1
    /\ fout = <<>>

FilterInit ==
    /\ fpc = "drawn"
    /\ fa \in FilterArgs
    /\ ff \in 1..Len(FilterFrames)
    /\ fout = <<>>

\* parseInboundMessages on the buffer holding the frame.
ApplyFilter(ub) ==
    /\ fpc = "drawn"
    /\ fpc' = "applied"
    /\ fout' = parseInboundMessages(FrameOctets(FilterFrames[ff]),
                                    Len(FrameOctets(FilterFrames[ff])), fa,
                                    LocalsAt(ub, NoLocals), ub).events
    /\ UNCHANGED <<fa, ff>>
    /\ UNCHANGED <<discVars, chanVars, codecVars>>

FilterNext == \E ub \in ChanUB : ApplyFilter(ub)
(***************************************************************************)
(* The frame encoder against the frame decoder, and the decoder against a  *)
(* buffer that holds less than the frame its length prefix announces.      *)
(***************************************************************************)
\* What castSendMessage is given as data and dataLen: a C string (dataLen
\* < 0) or dataLen octets.
SendPayloads ==
    { [data |-> JsPingReq, dataLen |-> -1],
      [data |-> JsCloseReq, dataLen |-> -1],
      [data |-> TxtHello, dataLen |-> -1],
      [data |-> <<>>, dataLen |-> -1],
      [data |-> <<1, 2, 3>>, dataLen |-> 3],
      [data |-> <<1, 2, 3>>, dataLen |-> 0] }

SendInputs ==
    { [kind |-> "round", fromSenderSession |-> fs, toPortalReceiver |-> tp,
       namespace |-> ns, data |-> p.data, dataLen |-> p.dataLen] :
         fs \in 0..1, tp \in 0..1, ns \in NS_CONNECTION..NS_RECEIVER, p \in SendPayloads }

\* Length prefixes, and the octets buffered behind them.
Prefixes ==
    { <<0, 0, 0, 1>>, <<0, 0, 0, 5>>, <<0, 0, 0, 80>>, <<0, 0, 1, 0>>,
      <<0, 1, 0, 0>>, <<1, 0, 0, 0>>, <<127, 255, 255, 255>>, <<128, 0, 0, 0>>,
      <<255, 255, 255, 251>>, <<255, 255, 255, 252>>, <<255, 255, 255, 253>>,
      <<255, 255, 255, 254>>, <<255, 255, 255, 255>> }

PrefixTails == { <<>>, <<8>>, <<8, 0>>, <<8, 0, 18>> }

\* The value of a prefix as far as it matters here: 4 stands for 4 and more.
PrefixValue(p) == IF p[1] = 0 /\ p[2] = 0 /\ p[3] = 0 /\ p[4] < 4 THEN p[4] ELSE 4

PrefixBuffers ==
    { b \in { <<p, t>> : p \in Prefixes, t \in PrefixTails } :
        Len(b[2]) < PrefixValue(b[1]) }

PrefixInputs ==
    { [kind |-> "prefix", octets |-> b[1] \o b[2]] : b \in PrefixBuffers }
      \cup { [kind |-> "prefix", octets |-> SubSeq(p, 1, n)] : p \in Prefixes, n \in 1..3 }

CodecOff ==
    /\ kpc = "off"
    /\ kin = [kind |-> "none"]
    /\ kout = [kind |-> "none"]

CodecInit ==
    /\ kpc = "drawn"
    /\ kin \in SendInputs \cup PrefixInputs
    /\ kout = [kind |-> "none"]

\* The fields the decoder has for a frame when its fragment loop ended in
\* state s, and whether the frame passes the exact-fit and required-element
\* tests.
DecodedFrame(mem, msgLimit, ub, s) ==
    [kind             |-> "round",
     valid            |-> ~(s.err \/ s.offset # msgLimit \/ Incomplete(s)),
     msgProtoVersion  |-> s.msgProtoVersion,
     isSenderSession  |-> s.isSenderSession,
     isPortalReceiver |-> s.isPortalReceiver,
     namespace        |-> s.namespace,
     contentType      |-> s.contentType,
     content          |-> IF s.content >= 0 /\ s.contentLen < Big
                          THEN RdBSeq(mem, s.content, s.contentLen, ub) ELSE <<>>]

decodeFrame(mem, length, loc, ub) ==
    DecodedFrame(mem, MsgLimit(mem), ub,
                 fragmentLoop(mem, length, MsgLimit(mem), FrameStart(loc), ub))

decodeOctets(octets, ub) == decodeFrame(octets, Len(octets), LocalsAt(ub, NoLocals), ub)

\* The octets castSendMessage writes, given to the decoder.
RoundTrip(ub) ==
    /\ kpc = "drawn"
    /\ kin.kind = "round"
    /\ kpc' = "decoded"
    /\ kout' = decodeOctets(castSendMessageFrame(kin.fromSenderSession,
                                                 kin.toPortalReceiver, kin.namespace,
                                                 kin.data, kin.dataLen), ub)
    /\ UNCHANGED kin
    /\ UNCHANGED <<discVars, chanVars, filtVars>>

AnyArgs ==
    [forSenderSession |-> -1, fromPortalReceiver |-> -1, targNamespace |-> NS_ANY,
     expJsonResponse |-> -1, cb |-> "keepPong"]

\* What parseInboundMessages left of the buffer and what it reported.
BufferAfter(r) ==
    [kind |-> "prefix", buffer |-> SubSeq(r.mem, 1, r.length), retval |-> r.retval,
     events |-> r.events]

\* parseInboundMessages on a buffer that holds the inbound octets.
PrefixParse(ub) ==
    /\ kpc = "drawn"
    /\ kin.kind = "prefix"
    /\ kpc' = "decoded"
    /\ kout' = BufferAfter(parseInboundMessages(kin.octets, Len(kin.octets), AnyArgs,
                                                LocalsAt(ub, NoLocals), ub))
    /\ UNCHANGED kin
    /\ UNCHANGED <<discVars, chanVars, filtVars>>

CodecNext == \E ub \in ChanUB : RoundTrip(ub) \/ PrefixParse(ub)
(***************************************************************************)
(* The name and response decoders of castDiscover on their own: a name in  *)
(* a buffer is decoded by parseQName and stepped over by skipQName, a      *)
(* response datagram is decoded as the receive loop decodes it.  The       *)
(* responses are built from their parts, with the rdlength of a record     *)
(* written independently of its data.                                      *)
(***************************************************************************)
RecordLen(owner, rType, rLen, rdata) ==
    owner \o Pack16(rType) \o Pack16(1) \o Pack32(120) \o Pack16(rLen) \o rdata

Response(ansLen, data, auth, addl) ==
    Header(65261, 33792, 0, 1, Len(auth), Len(addl))
        \o RecordLen(QName(ServiceName), 12, ansLen, data)
        \o Flatten(auth) \o Flatten(addl)

\* The PTR data of a well-formed answer: TV and a pointer to the owner name.
PtrData == Label(StrTV) \o PtrTo(12)

RecordsOf(items, owner) ==
    [i \in 1..Len(items) |->
        RecordLen(owner, items[i].t, Len(RData(items[i])), RData(items[i]))]

\* Names that end in a pointer, at offset off of a buffer whose first octets
\* are the tail the pointer refers to; two more octets follow the pointer.
\* short octets of the buffer's end are not part of the message.
NameTails == {<<>>, <<local>>, ServiceName}

NameInline == {<<>>, <<StrTV>>, <<StrTV, _tcp>>}

NameInputs ==
    { [kind   |-> "name",
       mem    |-> QName(t) \o <<9>> \o Labels(n) \o PtrTo(0) \o <<5, 65>>,
       off    |-> Len(QName(t)) + 1,
       inline |-> Len(Labels(n)),
       short  |-> s] : t \in NameTails, n \in NameInline, s \in 0..3 }

\* The same response with the owner names of its authority and additional
\* records written as a pointer (c) and written out (u).
OwnerNames ==
    { [c |-> PtrTo(12), u |-> QName(ServiceName)],
      [c |-> Label(StrTV) \o PtrTo(12), u |-> QName(<<StrTV>> \o ServiceName)],
      [c |-> Label(StrTV) \o PtrTo(24), u |-> QName(<<StrTV, _tcp, local>>)] }

AdditionalLists ==
    { <<AllTxt, Srv(8010), ARec>>, <<Srv(8010), ARec, AllTxt>>,
      <<Txt(<<TxtMdUltra>>)>>, <<Srv(8009)>>,
      <<Txt(<<TxtIdA1>>), Txt(<<TxtFnDen>>)>> }

AuthorityLists == {<<>>, <<ARec>>}

PairInputs ==
    { [kind |-> "pair",
       c    |-> Response(5, PtrData, RecordsOf(au, o.c), RecordsOf(ad, o.c)),
       u    |-> Response(5, PtrData, RecordsOf(au, o.u), RecordsOf(ad, o.u))] :
         o \in OwnerNames, ad \in AdditionalLists, au \in AuthorityLists }

\* Responses with one TXT record (its data is raw, at offset TxtAt) whose
\* last character-string is longer than what is left of the record, or is
\* complete; next are the records that follow it.
PlainLen == Len(Response(5, PtrData, <<>>, <<>>))

TxtAt == PlainLen + 12

TxtData ==
    { Label(TxtIdA1) \o <<20>> \o SubSeq(TxtMdUltra, 1, 5),
      <<9>> \o TxtIdA1,
      Label(TxtFnDen) \o <<5>> \o SubSeq(TxtIdA1, 1, 4),
      Labels(<<TxtIdA1, TxtFnDen>>) }

TxtFollowers == {<<>>, <<Srv(8010)>>, <<Txt(<<TxtMdUltra>>)>>}

TxtResponses ==
    { [what   |-> "txt",
       octets |-> Response(5, PtrData, <<>>,
                           <<RecordLen(PtrTo(12), 16, Len(raw), raw)>>
                               \o RecordsOf(next, PtrTo(12))),
       raw    |-> raw,
       next   |-> next] : raw \in TxtData, next \in TxtFollowers }

Described(what, octets) == [what |-> what, octets |-> octets, raw |-> <<>>, next |-> <<>>]

\* Responses in which the rdlength of a record is larger than what is left
\* of the datagram: of the answer, of an authority record, of an additional
\* record; the last one announces an additional record that is not there.
LongRecord(rType, rLen, rdata) == RecordLen(PtrTo(12), rType, rLen, rdata)

RdlengthResponses ==
    { Described("rdlength", Response(5, Label(StrTV), <<>>, <<>>)),
      Described("rdlength", Response(40, PtrData, <<>>, <<>>)),
      Described("rdlength", Response(5, PtrData, <<LongRecord(1, 30, <<10, 12, 1, 141>>)>>, <<>>)),
      Described("rdlength", Response(5, PtrData, <<>>, <<LongRecord(1, 30, <<10, 12, 1, 141>>)>>)),
      Described("rdlength", Response(5, PtrData, <<>>, <<LongRecord(16, 30, Label(TxtIdA1))>>)),
      Described("rdlength", Response(5, PtrData, <<>>, <<LongRecord(33, 8, <<0, 0>>)>>)),
      Described("rdlength", Header(65261, 33792, 0, 1, 0, 1)
                                \o RecordLen(QName(ServiceName), 12, 40, PtrData)) }

\* Responses whose PTR data is a name that is not terminated within its
\* rdlength, or whose pointer refers to an offset at or behind the end of
\* the message.
PtrFollowers == {<<>>, <<AllTxt>>}

MalformedPtrResponses ==
    { Described("unterminated",
                Response(7, Label(StrTV) \o Label(StrDen), <<>>,
                         RecordsOf(next, PtrTo(12)))) : next \in PtrFollowers }
    \cup
    { Described("pointer_out",
                Response(5, Label(StrTV) \o PtrTo(PlainLen + k), <<>>, <<>>)) :
          k \in {0, 60} }

GoodResponses ==
    { Described("good", Response(5, PtrData, <<>>, RecordsOf(ad, PtrTo(12)))) :
          ad \in AdditionalLists }

\* What the message buffer's array holds behind the datagram: nothing yet,
\* or the octets of an earlier, longer datagram.
StaleOctets == {<<>>, ArrivalOctets[1]}

DatagramInputs ==
    { [kind |-> "dgram", what |-> d.what, octets |-> d.octets, raw |-> d.raw,
       next |-> d.next, stale |-> s] :
          d \in TxtResponses \cup RdlengthResponses \cup MalformedPtrResponses
                    \cup GoodResponses,
          s \in StaleOctets }

DecodeInit ==
    /\ kpc = "drawn"
    /\ kin \in NameInputs \cup PairInputs \cup DatagramInputs
    /\ kout = [kind |-> "none"]

\* msgBuffer.offset where the record is emitted, after the answer, the
\* authority and the additional records (the steps of castDiscoverDatagram).
OffsetAfterAnswer(mem, length, ub, rec) == rec.offset + rec.rLen

OffsetAtEmit(mem, length, ub) ==
    LET hdr == UnpackHeader(mem, length)
        rec == UnpackRecord(mem, length, parseQName(mem, length, 12, -1, ub).offset)
        au  == authorityLoop(mem, length, ub, 0, hdr.rAuthority,
                             OffsetAfterAnswer(mem, length, ub, rec))
    IN  additionalLoop(mem, length, ub, 0, hdr.rAdditional, au.offset, WrkInit(<<>>)).offset

DecodeName(ub) ==
    /\ kpc = "drawn"
    /\ kin.kind = "name"
    /\ kpc' = "decoded"
    /\ kout' = [kind  |-> "name",
                parse |-> parseQName(kin.mem, Len(kin.mem) - kin.short, kin.off, -1, ub),
                skip  |-> skipQName(kin.mem, Len(kin.mem) - kin.short, kin.off, ub)]
    /\ UNCHANGED kin
    /\ UNCHANGED <<discVars, chanVars, filtVars>>

DecodePair(ub) ==
    /\ kpc = "drawn"
    /\ kin.kind = "pair"
    /\ kpc' = "decoded"
    /\ kout' = [kind |-> "pair",
                c    |-> castDiscoverDatagram(kin.c, Len(kin.c), SrcV4, ub),
                u    |-> castDiscoverDatagram(kin.u, Len(kin.u), SrcV4, ub)]
    /\ UNCHANGED kin
    /\ UNCHANGED <<discVars, chanVars, filtVars>>

DecodeDatagram(ub) ==
    /\ kpc = "drawn"
    /\ kin.kind = "dgram"
    /\ kpc' = "decoded"
    /\ LET mem == PutMem(kin.stale, kin.octets)
           r   == castDiscoverDatagram(mem, Len(kin.octets), SrcV4, ub)
       IN  kout' = [kind   |-> "dgram",
                    out    |-> r.out,
                    dev    |-> DeviceOf(r.wrk),
                    offset |-> IF r.out = "emit"
                               THEN OffsetAtEmit(mem, Len(kin.octets), ub) ELSE -1,
                    txt    |-> IF kin.what = "txt"
                               THEN txtLoop(mem, ub, TxtAt, Len(kin.raw), TxtAt,
                                            WrkInit(<<>>))
                               ELSE [st |-> "none"]]
    /\ UNCHANGED kin
    /\ UNCHANGED <<discVars, chanVars, filtVars>>

DecodeNext ==
    \E ub \in UBChoices : DecodeName(ub) \/ DecodePair(ub) \/ DecodeDatagram(ub)
(***************************************************************************)
(* The program, and its parts on their own.                                *)
(***************************************************************************)
vars == <<discVars, chanVars, filtVars, codecVars>>

Init == DiscInit /\ ChanInit /\ FilterOff /\ CodecOff

Next == DiscNext \/ ChanNext \/ FilterNext \/ CodecNext \/ DecodeNext

Spec == Init /\ [][Next]_vars

\* Discovery calls and the test flag.
SpecDisc == Init /\ [][DiscNext]_vars

\* The test flag and the calls on a connection.
ChanStep == (\E mode \in 0..2 : TestCtl(mode)) \/ ChanNext

SpecChan == Init /\ [][ChanStep]_vars

(***************************************************************************)
(* Rounds of castReceiveMessage's loop beyond the reads that are counted:  *)
(* SSL_read returns the whole frames of chunk c into the empty buffer,     *)
(* parseInboundMessages takes all of them and returns NULL, and the loop   *)
(* goes on.  The loop's condition is (rc >= 0) && (reqTimeout > 0); rc is  *)
(* the number of octets read and reqTimeout is changed by WXSocket_Wait    *)
(* only.  nreads alternates between MaxReads and MaxReads + 1 from here    *)
(* on, and the logs of the call are not extended.                          *)
(***************************************************************************)
RecvSteady(c, ub) ==
    /\ cpc = "recv"
    /\ reqTimeout > 0
    /\ nreads >= MaxReads
    /\ ~TestPath
    /\ conn.ssl
    /\ readLen = 0 /\ inbuf = <<>>
    /\ LET r == parseInboundMessages(AppendBuffer(readMem, readLen, ChunkTable[c].octets),
                                     Len(ChunkTable[c].octets), call.a,
                                     LocalsAt(ub, stk), ub)
       IN  /\ r.st # "crash" /\ r.retval = RespNull /\ r.length = 0
           /\ readMem' = r.mem
           /\ stk' = r.loc
    /\ nreads' = IF nreads = MaxReads THEN MaxReads + 1 ELSE MaxReads
    /\ UNCHANGED <<conn, readLen, tstresp, cpc, call, reqTimeout, nconn, inbuf, rx,
                   mlog, result, clog>>
    /\ UNCHANGED <<discVars, filtVars, codecVars>>

\* What the reads of the loop's specification return: a PONG, a PING, a
\* text that is not JSON, and a frame of another namespace followed by one
\* without payload.
LoopChunks == {<<1>>, <<2>>, <<11>>, <<6, 7>>}

LoopUB == [u |-> 0, locals |-> "fresh"]

\* One round of the loop, whatever the read yields.
RecvRound ==
    \/ \E wrc \in {"READ_REQUIRED", "TIMEOUT", "ERROR"}, left \in 0..MaxTicks :
          RecvWait(wrc, left)
    \/ RecvSslError("fail")
    \/ \E c \in LoopChunks : RecvData(c, LoopUB)
    \/ \E c \in LoopChunks : RecvSteady(c, LoopUB)

LoopNext ==
    \/ castDeviceConnect("ok", "none")
    \/ castDeviceClose("ok")
    \/ castDevicePing("ok")
    \/ castAppCheckAvailability("ok")
    \/ RecvRound

\* The calls on a connection with the loop's rounds taken in turn: the
\* loop does not pause, what a read yields is the device's choice.
SpecLoop == Init /\ [][LoopNext]_vars /\ WF_vars(RecvRound)

(***************************************************************************)
(* The device's octet stream read in pieces: a read returns a whole frame, *)
(* or the first octets of a frame, or the rest of the frame whose first    *)
(* octets the read before returned.  clog.pend is the frame the device has *)
(* sent the first octets of (0: none), inbuf the pieces that lie in the    *)
(* read buffer: the number of the frame a piece begins (negated for the    *)
(* rest of a frame, 0 for a piece whose first octets were consumed) and    *)
(* its length.                                                             *)
(***************************************************************************)
SplitAt == Len(StrReceiver0)

SplitFrames == {1, 4}

Piece(f, kind) ==
    [fid |-> f, kind |-> kind,
     octets |-> IF kind = "whole" THEN FrameOctets(Frames[f])
                ELSE IF kind = "head" THEN SubSeq(FrameOctets(Frames[f]), 1, SplitAt)
                ELSE SubSeq(FrameOctets(Frames[f]), SplitAt + 1,
                            Len(FrameOctets(Frames[f])))]

Pieces == { Piece(f, kind) : f \in SplitFrames, kind \in {"whole", "head", "tail"} }

InBuffer(p) ==
    [id |-> IF p.kind = "tail" THEN 0 - p.fid ELSE p.fid, len |-> Len(p.octets)]

\* The pieces q without their first n octets.
RECURSIVE Drop(_, _)
Drop(q, n) ==
    IF n = 0 \/ q = <<>> THEN q
    ELSE IF n >= q[1].len THEN Drop(Tail(q), n - q[1].len)
    ELSE <<[id |-> 0, len |-> q[1].len - n]>> \o Tail(q)

\* SSL_read returned the octets of piece p.
RecvPiece(p, ub) ==
    /\ cpc = "recv"
    /\ ~TestPath
    /\ conn.ssl
    /\ nreads < MaxReads
    /\ IF clog.pend = 0 THEN p.kind # "tail"
       ELSE p.kind = "tail" /\ p.fid = clog.pend
    /\ nreads' = nreads + 1
    /\ clog' = [clog EXCEPT !.pend = IF p.kind = "head" THEN p.fid ELSE 0]
    /\ \E grown \in Grows(Len(p.octets)) :
          IF ~grown
          THEN /\ Flush
               /\ Return(RespNull, "nomem", {"Error assembling read response"})
               /\ UNCHANGED <<rx, mlog, reqTimeout>>
          ELSE LET r == parseInboundMessages(AppendBuffer(readMem, readLen, p.octets),
                                             readLen + Len(p.octets), call.a,
                                             LocalsAt(ub, stk), ub)
               IN  Parsed(r,
                          [q   |-> Drop(Append(inbuf, InBuffer(p)),
                                        readLen + Len(p.octets) - r.length),
                           log |-> Attribute(r.events, <<>>, <<>>).log],
                          <<InBuffer(p)>>)
    /\ UNCHANGED <<conn, tstresp, call, nconn>>
    /\ UNCHANGED <<discVars, filtVars, codecVars>>

SplitNext ==
    \/ castDeviceConnect("ok", "none")
    \/ castDeviceClose("ok")
    \/ castDevicePing("ok")
    \/ castAppCheckAvailability("ok")
    \/ \E wrc \in {"READ_REQUIRED", "TIMEOUT", "ERROR"}, left \in 0..MaxTicks :
          RecvWait(wrc, left)
    \/ RecvSslError("fail")
    \/ \E p \in Pieces, ub \in ChanUB : RecvPiece(p, ub)

\* The calls on a connection whose reads return pieces of the stream.
SpecSplit == Init /\ [][SplitNext]_vars

\* The filter against every frame and argument combination.
InitFilter == DiscInit /\ ChanInit /\ FilterInit /\ CodecOff

SpecFilter == InitFilter /\ [][FilterNext]_vars

\* The encoder's frames and the length prefixes against the decoder.
InitCodec == DiscInit /\ ChanInit /\ FilterOff /\ CodecInit

SpecCodec == InitCodec /\ [][CodecNext]_vars

\* Names and response datagrams against the decoders of castDiscover.
InitDecode == DiscInit /\ ChanInit /\ FilterOff /\ DecodeInit

SpecDecode == InitDecode /\ [][DecodeNext]_vars
\* "63970hbc22h26b6b2a0492825db8d2f4"
ScnOneId ==
    <<54, 51, 57, 55, 48, 104, 98, 99, 50, 50, 104, 50, 54, 98, 54, 98, 50,
        97, 48, 52, 57, 50, 56, 50, 53, 100, 98, 56, 100, 50, 102, 52>>

\* "Den TV"
ScnOneName ==
    <<68, 101, 110, 32, 84, 86>>

\* "10.11.12.13"
ScnOneAddr ==
    <<49, 48, 46, 49, 49, 46, 49, 50, 46, 49, 51>>

\* "6b0h3b26023d232e072a2be28a24b7b7"
ScnTwoId ==
    <<54, 98, 48, 104, 51, 98, 50, 54, 48, 50, 51, 100, 50, 51, 50, 101, 48,
        55, 50, 97, 50, 98, 101, 50, 56, 97, 50, 52, 98, 55, 98, 55>>

\* "TST Chrome Panel"
ScnTwoName ==
    <<84, 83, 84, 32, 67, 104, 114, 111, 109, 101, 32, 80, 97, 110, 101,
        108>>

\* "Chromecast Ultra"
ScnTwoModel ==
    <<67, 104, 114, 111, 109, 101, 99, 97, 115, 116, 32, 85, 108, 116, 114,
        97>>

\* "2016:cd8:4567:2cd0::12"
ScnTwoAddr ==
    <<50, 48, 49, 54, 58, 99, 100, 56, 58, 52, 53, 54, 55, 58, 50, 99, 100,
        48, 58, 58, 49, 50>>
(***************************************************************************)
(* Properties of discovery.                                                *)
(***************************************************************************)
Records == [i \in 1..Len(devices) |-> devices[i].rec]

ScenarioOne ==
    [id |-> ScnOneId, name |-> ScnOneName, model |-> StrChromecast,
     ipAddr |-> ScnOneAddr, port |-> 8009]

ScenarioTwo ==
    [id |-> ScnTwoId, name |-> ScnTwoName, model |-> ScnTwoModel,
     ipAddr |-> ScnTwoAddr, port |-> 8009]

Scenario(f) == IF f = 1 THEN ScenarioOne ELSE ScenarioTwo

SrcOf(d) ==
    IF d.arr = 0 THEN (IF d.fam = 1 THEN TstSrcOne ELSE TstSrcTwo)
    ELSE Arrivals[d.arr].src

\* C4: the ipAddr of every record in the list is the text of the source
\* address of the datagram the record was decoded from.
C4_IpAddrIsSource ==
    \A i \in 1..Len(devices) : devices[i].rec.ipAddr = InetNtop(SrcOf(devices[i]))

\* The TXT character strings of a response, in order, and the value of a key.
TxtSegs(r) ==
    Flatten([i \in 1..Len(r.addl) |-> IF r.addl[i].t = 16 THEN r.addl[i].segs ELSE <<>>])

HasKey(r, key) == \E i \in 1..Len(TxtSegs(r)) : HasPrefix(TxtSegs(r)[i], key)

ValueOf(r, key) ==
    LET s == TxtSegs(r)
        i == Max({k \in 1..Len(s) : HasPrefix(s[k], key)})
    IN  SubSeq(s[i], Len(key) + 1, Len(s[i]))

HasSrv(r) == \E i \in 1..Len(r.addl) : r.addl[i].t = 33

SrvPort(r) == r.addl[Max({i \in 1..Len(r.addl) : r.addl[i].t = 33})].port

FirstLabel(data) == SubSeq(data, 2, 1 + data[1])

\* C5: every record in the list has the name of TXT fn=, else the first
\* label of the PTR record data; the model of TXT md=, else "Chromecast";
\* the id of TXT id=, else the empty string; the port of the SRV record,
\* else 8009.
C5_FieldsFromResponse ==
    \A i \in 1..Len(devices) :
        devices[i].arr > 0 =>
            LET r == Arrivals[devices[i].arr]
                d == devices[i].rec
            IN  /\ d.name = IF HasKey(r, KeyFn) THEN ValueOf(r, KeyFn)
                            ELSE FirstLabel(r.data)
                /\ d.model = IF HasKey(r, KeyMd) THEN ValueOf(r, KeyMd)
                             ELSE StrChromecast
                /\ d.id = IF HasKey(r, KeyId) THEN ValueOf(r, KeyId) ELSE <<>>
                /\ d.port = IF HasSrv(r) THEN SrvPort(r) ELSE 8009

\* The labels of the name at an offset of a message, by the rules of DNS name
\* compression: every octet read lies inside the message and no pointer
\* target is visited twice.  <<>> stands for a name that cannot be decoded.
RECURSIVE NameAt(_, _, _)
NameAt(msg, offset, seen) ==
    IF offset >= Len(msg) THEN <<<<>>>>
    ELSE LET b == msg[offset + 1]
         IN  IF b = 0 THEN <<>>
             ELSE IF IsPointer(b)
             THEN IF offset + 1 >= Len(msg) THEN <<<<>>>>
                  ELSE LET t == (b % 64) * 256 + msg[offset + 2]
                       IN  IF t \in seen THEN <<<<>>>>
                           ELSE NameAt(msg, t, seen \cup {t})
             ELSE IF offset + 1 + b > Len(msg) THEN <<<<>>>>
             ELSE <<SubSeq(msg, offset + 2, offset + 1 + b)>>
                      \o NameAt(msg, offset + 1 + b, seen)

\* C6: every record in the list is from a datagram with txid 0xFEED, flags
\* 0x8400, no question and one answer, whose answer is a PTR record of class
\* 1 (low 15 bits) named exactly _googlecast._tcp.local.
C6_OnlyCastAnswers ==
    \A i \in 1..Len(devices) :
        devices[i].arr > 0 =>
            LET r == Arrivals[devices[i].arr]
            IN  /\ r.txn = 65261 /\ r.flags = 33792 /\ r.qd = 0 /\ r.an = 1
                /\ r.rType = 12 /\ r.rClass % 32768 = 1
                /\ NameAt(ArrivalOctets[devices[i].arr], 12, {}) = ServiceName

\* C7: a datagram never ends a family's receive loop while time is left in
\* the wait window.
C7_LoopSurvivesDatagram == lastDgram.out = "break" => lastDgram.left <= 0

\* C8: name decoding never runs into a pointer cycle it does not leave, so
\* castDiscover is never stuck inside parseQName.
C8_DecodingTerminates == dpc # "hung"

SetupFailures == SetupOutcomes \ {"ok"}

\* C22: when castDiscover has returned and a step of a family's setup
\* (socket, non-blocking state, multicast options, query) had failed, the
\* result holds no record of that family, and the other family, if
\* selected, was taken up all the same: its setup was tried and the records
\* of its datagrams are in the result.
C22_FailedFamilyOnly ==
    dpc = "returned" =>
        \A f \in 1..2 :
            famLog[f] \in SetupFailures =>
                /\ \A i \in 1..Len(devices) : devices[i].fam # f
                /\ \A g \in 1..2 \ {f} :
                      Selected(g, ipMode) => famLog[g] \notin {"none", "skipped"}

\* The IPv4 setup failed and the result holds a record of IPv6.
C22_Witness ==
    /\ dpc = "returned" /\ ipMode = 3
    /\ famLog[1] \in SetupFailures
    /\ Len(devices) > 0 /\ devices[1].fam = 2 /\ devices[1].arr > 0

\* C23: a castDiscover call with ipMode 0 passes over both families: no
\* socket is set up, no query is written or sent, no datagram is read, the
\* call is never in a receive loop and its result is empty.
C23_ModeZeroDoesNothing ==
    ipMode = 0 =>
        /\ devices = <<>>
        /\ nrecv = 0
        /\ msgMem = <<>>
        /\ dpc # "recv"
        /\ lastDgram = NoDgram
        /\ \A f \in 1..2 : famLog[f] \in {"none", "skipped"}

\* A call with ipMode 0 has returned.
C23_Witness ==
    /\ dpc = "returned" /\ ipMode = 0
    /\ famLog[1] = "skipped" /\ famLog[2] = "skipped"
    /\ devices = <<>>

\* C24: no two records of the list describe the same device, that is, have
\* the same id and the same address.
C24_OneRecordPerDevice ==
    \A i, j \in 1..Len(devices) :
        (i < j) => ~(/\ devices[i].rec.id = devices[j].rec.id
                     /\ devices[i].rec.ipAddr = devices[j].rec.ipAddr)

\* C40: the text of the source address stored in a device record fits the
\* record's ipAddr field, terminator included, and the id, name and model
\* taken from the response fit their 256-octet fields.
C40_FieldsFit ==
    \A i \in 1..Len(devices) :
        /\ Len(devices[i].rec.ipAddr) + 1 <= IpAddrSize
        /\ Len(devices[i].rec.id) + 1 <= 256
        /\ Len(devices[i].rec.name) + 1 <= 256
        /\ Len(devices[i].rec.model) + 1 <= 256
(***************************************************************************)
(* Properties of the message channel.                                      *)
(***************************************************************************)
\* What a frame says, read off its description.
JsonOf(f) == IF f.ptype = 0 /\ f.tag = 6 /\ f.shape = "full"
             THEN WXJSON_Decode(f.payload) ELSE JError

Member(val, key) == IF val.t = "object" /\ key \in DOMAIN val.f THEN val.f[key] ELSE NoEntry

IsPongFrame(f) ==
    /\ f.src = StrReceiver0
    /\ f.dst = StrSender0
    /\ f.ns = NsHeartbeat
    /\ Member(JsonOf(f), "type") = JString("PONG")

SaysAvailability(f, status) ==
    /\ Member(JsonOf(f), "responseType") = JString("GET_APP_AVAILABILITY")
    /\ Member(Member(JsonOf(f), "availability"), applicationId) = JString(status)

\* C1: castDevicePing returns success if and only if the PING was sent and a
\* frame from receiver-0 to sender-0 on the heartbeat namespace whose JSON
\* payload has "type" "PONG" was received before the call ended; a send
\* failure, a timeout and a transport error yield failure.
C1_PingSuccessIffPong ==
    (cpc = "returned" /\ call.op = "ping") =>
        /\ result.rc = 0 <=>
              (result.sent /\ \E i \in 1..Len(rx) : IsPongFrame(Frames[rx[i]]))
        /\ result.why \in {"send", "timeout", "wait", "ssl", "expired"} => result.rc = -1

\* The frame the call accepted: the one whose matcher result ended the call.
Accepted ==
    IF mlog # <<>> /\ mlog[Len(mlog)].what = "passed"
          /\ mlog[Len(mlog)].res # RespNull /\ mlog[Len(mlog)].fid # 0
    THEN {Frames[mlog[Len(mlog)].fid]} ELSE {}

\* C2: castAppCheckAvailability returns success if and only if the accepted
\* response has responseType "GET_APP_AVAILABILITY" and the application's
\* availability "APP_AVAILABLE"; "APP_UNAVAILABLE" yields failure with the
\* warning that the application is not available; without an accepted
\* response the call fails.
C2_AvailableIffResponseSaysSo ==
    (cpc = "returned" /\ call.op = "avail") =>
        /\ result.rc = 0 <=> \E f \in Accepted : SaysAvailability(f, "APP_AVAILABLE")
        /\ (\E f \in Accepted : SaysAvailability(f, "APP_UNAVAILABLE"))
              => result.rc = -1 /\ WarnUnavailable \in result.warn
        /\ Accepted = {} => result.rc = -1

\* C9: in castReceiveMessage a frame for which the matcher returns NULL does
\* not end the call; the error sentinel ends it with NULL (failure); any
\* other result ends it and is returned as it is; and the frame that ended
\* the call is the last one the matcher got in that call.  mlog is the log
\* of the matcher's calls in the latest receive, result what that receive
\* returned.
C9_MatcherResultDecides ==
    \A i \in 1..Len(mlog) :
        mlog[i].what = "passed" =>
            IF mlog[i].res = RespNull
            THEN i = Len(mlog) => result.why # "matcher"
            ELSE /\ i = Len(mlog)
                 /\ cpc # "recv"
                 /\ result.why = "matcher"
                 /\ result.rv = IF mlog[i].res = CPTL_RESP_ERROR THEN RespNull
                                ELSE mlog[i].res

\* A Ping whose matcher passed over a PING frame and took the PONG frame
\* behind it.
C9_Witness ==
    /\ cpc = "returned"
    /\ call.op = "ping"
    /\ Len(mlog) = 2
    /\ mlog[1].what = "passed" /\ mlog[1].res = RespNull
    /\ mlog[2].what = "passed" /\ mlog[2].res \notin {RespNull, CPTL_RESP_ERROR}
    /\ result.rv = mlog[2].res

\* What the four filters ask of a frame.
Satisfies(a, f) ==
    /\ a.forSenderSession >= 0 =>
          f.dst = (IF a.forSenderSession # 0 THEN StrCastptlNnn ELSE StrSender0)
    /\ a.fromPortalReceiver >= 0 =>
          f.src = (IF a.fromPortalReceiver # 0 THEN StrCastptl000 ELSE StrReceiver0)
    /\ a.targNamespace # NS_ANY => f.ns = namespaces[a.targNamespace + 1]
    /\ a.expJsonResponse >= 0 => f.ptype = (IF a.expJsonResponse # 0 THEN 0 ELSE 1)

\* C10: a valid frame is passed to the matcher if and only if it satisfies
\* the four filters (destination, source, namespace, payload type), each of
\* which is true, false or any.
C10_PassedIffFiltersHold ==
    fpc = "applied" =>
        ((\E i \in 1..Len(fout) : fout[i].what = "passed")
            <=> Satisfies(fa, FilterFrames[ff]))

\* The top-level requestId of a frame's JSON payload, -1 when it has none.
RequestIdOf(f) ==
    IF f.payload \in {JsAvail, JsUnavail} THEN 1
    ELSE IF f.payload = JsAvailTwo THEN 2
    ELSE -1

\* C11: in a receive that was given a request id greater than zero, a JSON
\* frame is passed to the matcher only if the requestId of its JSON equals
\* the given one.
C11_RequestIdMatches ==
    call.requestId > 0 =>
        \A i \in 1..Len(mlog) :
            (mlog[i].what = "passed" /\ mlog[i].fid # 0
                /\ Frames[mlog[i].fid].ptype = 0 /\ Frames[mlog[i].fid].shape = "full")
                => RequestIdOf(Frames[mlog[i].fid]) = call.requestId

\* C12: castReceiveMessage never returns the error sentinel; it returns NULL
\* when its timeout ran out, when the wait or the read failed, when a frame
\* was malformed and when the matcher reported an error.
C12_NeverTheSentinel ==
    cpc = "returned" =>
        /\ result.rv # CPTL_RESP_ERROR
        /\ result.why \in {"expired", "timeout", "wait", "ssl", "nomem"}
              => result.rv = RespNull
        /\ (result.why = "matcher" /\ mlog # <<>>
               /\ mlog[Len(mlog)].res = CPTL_RESP_ERROR) => result.rv = RespNull

\* A receive that ended on a malformed frame after the matcher had passed
\* over a frame, and returned NULL.
C12_Witness ==
    /\ cpc = "returned"
    /\ result.why = "matcher"
    /\ Len(mlog) = 2
    /\ mlog[1].what = "passed" /\ mlog[1].res = RespNull
    /\ mlog[2].what = "error" /\ mlog[2].res = CPTL_RESP_ERROR
    /\ result.rv = RespNull

\* A receive whose timeout ran out after frames had been read and passed
\* over.
C12_Expired ==
    /\ cpc = "returned"
    /\ result.why = "expired"
    /\ mlog # <<>>
    /\ result.rv = RespNull

\* The octets a frame has in the buffer, prefix included.
FrameLen(fid) == Len(FrameOctets(Frames[fid]))

\* C13: a complete frame that the decoder rejects is taken from the buffer
\* with exactly its prefix and its declared length, whatever the length.
C13_RejectedFrameRemoved ==
    \A i \in 1..Len(mlog) :
        (mlog[i].what = "error" /\ mlog[i].fid # 0)
            => mlog[i].taken = FrameLen(mlog[i].fid)

\* C14: a malformed frame does not end the receive call.
C14_MalformedDoesNotEndCall ==
    ~(/\ cpc = "returned"
      /\ result.why = "matcher"
      /\ mlog # <<>>
      /\ mlog[Len(mlog)].what = "error")

\* C15: the octets castSendMessage writes for a sender, a receiver, a
\* namespace and a payload decode to a valid frame of version 0 with that
\* namespace, payload type and payload, whose source is read as other than
\* receiver-0 and whose destination as other than sender-0, which is what
\* castSendMessage wrote.
C15_RoundTrip ==
    (kpc = "decoded" /\ kin.kind = "round") =>
        /\ kout.valid
        /\ kout.msgProtoVersion = 0
        /\ kout.isPortalReceiver = 1
        /\ kout.isSenderSession = 1
        /\ kout.namespace = kin.namespace
        /\ kout.contentType = (IF kin.dataLen < 0 THEN 0 ELSE 1)
        /\ kout.content = (IF kin.dataLen < 0 THEN CStr(kin.data)
                           ELSE SubSeq(kin.data, 1, kin.dataLen))

\* C16: while the buffer holds less than the prefix and the length it
\* announces, the decoder takes nothing from the buffer, calls no matcher
\* and reports no error.
C16_IncompleteFrameWaits ==
    (kpc = "decoded" /\ kin.kind = "prefix") =>
        /\ kout.buffer = kin.octets
        /\ kout.events = <<>>
        /\ kout.retval = RespNull

\* The events of the latest receive that took a frame from the buffer.
IsTaken(e) == e.taken # 0

FramesTaken == SelectSeq(mlog, IsTaken)

C18_RequestIdIncreases ==
    [][(conn.st = "open" /\ conn'.st = "open" /\ conn'.requestId # conn.requestId
           /\ cpc' # "crash") =>
          /\ call'.op = "avail"
          /\ conn'.requestId = conn.requestId + 1
          /\ call'.requestId = conn'.requestId]_vars

\* C19: when castDeviceClose has returned for a connection that
\* castDeviceConnect had returned, it has first sent (or tried to
\* send) the CLOSE message and then released the connection's resources,
\* and nothing the connection had allocated is still held: not the socket,
\* not the TLS session, not the TLS context.
C19_CloseReleasesAll ==
    (conn.st = "none" /\ clog.failed = "" /\ clog.close # <<>>) =>
        /\ clog.close[1] \in {"CLOSE", "CLOSE failed"}
        /\ clog.held = {}

\* The CONNECT message: version 0, from sender-0 to receiver-0, on the
\* connection namespace, with the text {"type": "CONNECT"}.
ConnectMessage ==
    Frame(VarintField(1, 0) \o BytesField(2, StrSender0) \o BytesField(3, StrReceiver0)
              \o BytesField(4, NsConnection) \o VarintField(5, 0)
              \o BytesField(6, JsConnectReq))

OwnCanned == TstRespFrame(CannedFor(call.op))

\* C21: a call on one connection is not affected by a call on another
\* connection that runs between its send and its receive: on the test
\* path, where a call run alone reads the canned response of its own
\* operation once and returns on it, every frame the call reads is that
\* response and the call has returned when it has read one.
C21_ExchangeAsAlone ==
    (TestPath /\ conn.st = "open" /\ call.op \in {"ping", "avail"}
       /\ cpc \in {"recv", "returned"}) =>
        /\ \A i \in 1..Len(mlog) : mlog[i].fid = OwnCanned
        /\ mlog # <<>> => cpc = "returned"

\* C25: through the binding, castDeviceClose runs at most once for a
\* connection and never while the handle is still usable; a Ping that has
\* failed on the connection leaves the handle closed with castDeviceClose
\* run once; an operation invoked on a closed handle returns failure
\* without writing or reading anything.
C25_ClosedOnceAndInert ==
    /\ clog.closes <= 1
    /\ conn.st = "open" => clog.closes = 0
    /\ (cpc = "returned" /\ call.op = "ping" /\ call.on = nconn /\ result.rc < 0) =>
           /\ conn.st = "none"
           /\ (result.why # "noconn" /\ clog.failed = "") => clog.closes = 1
    /\ (cpc = "returned" /\ result.why = "noconn") =>
           /\ result.rc = -1 /\ ~result.sent
           /\ rx = <<>> /\ mlog = <<>> /\ call.requestId = -1

\* A Ping timed out on a connection the caller held, the binding closed the
\* handle, and castDeviceClose has run once.
C25_Witness ==
    /\ cpc = "returned" /\ call.op = "ping" /\ call.on = nconn
    /\ result.rc < 0 /\ result.why = "timeout"
    /\ conn.st = "none" /\ clog.failed = "" /\ clog.closes = 1
    /\ clog.close # <<>>


\* C30: a frame that passes the filters of a Ping or an availability check
\* and is not the awaited response makes the matcher return NULL, so that
\* the call does not end with it.
C30_MismatchIsNotAnError ==
    call.op \in {"ping", "avail"} =>
        \A i \in 1..Len(mlog) :
            (mlog[i].what = "passed" /\ mlog[i].res.k # "marker") =>
                /\ mlog[i].res = RespNull
                /\ (i = Len(mlog) /\ cpc = "returned") => result.why # "matcher"

\* C31: a call of castReceiveMessage that is in its loop leaves it.
C31_ReceiveReturns == (cpc = "recv") ~> (cpc # "recv")

\* The frames of the device whose source is not receiver-0 or whose
\* destination is not sender-0.
SessionFrames ==
    { n \in 1..Len(Frames) :
        /\ Frames[n].shape = "full"
        /\ Frames[n].src # StrReceiver0 \/ Frames[n].dst # StrSender0 }

\* C32: a frame with another source or destination id than the two global
\* ones is decoded like any other frame: it is not rejected as malformed.
C32_OtherIdsDecoded ==
    \A i \in 1..Len(mlog) :
        mlog[i].fid \in SessionFrames => mlog[i].what # "error"

\* The payload field of a frame is the one of its payload_type.
TagAgrees(f) == (f.ptype = 0 /\ f.tag = 6) \/ (f.ptype = 1 /\ f.tag = 7)

\* C33: a frame whose payload field is not the one of its payload_type is
\* rejected as malformed: it is neither filtered nor given to the matcher.
C33_PayloadTagAgrees ==
    fpc = "applied" =>
        ((\E i \in 1..Len(fout) : fout[i].what # "error")
            => TagAgrees(FilterFrames[ff]))

\* C34: a frame that carries neither field 6 nor field 7 is rejected as
\* invalid, whatever was parsed before it in the same or in an earlier
\* receive call: it is neither discarded by a filter nor given to the
\* matcher, with a payload of its own or of an earlier frame.
C34_NoPayloadIsInvalid ==
    \A i \in 1..Len(mlog) :
        (mlog[i].fid # 0 /\ Frames[mlog[i].fid].shape = "bare")
            => mlog[i].what = "error"

\* C35: a frame with a field of wire type 6 (a wire type that is none of 0,
\* 1, 2, 5) is malformed input: it is neither discarded by a filter nor
\* given to the matcher.
C35_UnknownWireTypeIsMalformed ==
    (fpc = "applied" /\ FilterFrames[ff].shape = "stray")
        => \A i \in 1..Len(fout) : fout[i].what = "error"

\* A complete valid frame that the receive with the filters a does not
\* present: it fails one of the filters, or its JSON text does not parse.
Failing(a, f) ==
    /\ f.shape = "full"
    /\ TagAgrees(f)
    /\ \/ ~Satisfies(a, f)
       \/ f.ptype = 0 /\ JsonOf(f).t = "error"

\* The events a step of the receive adds for such frames.
NewFailing ==
    { i \in (Len(mlog) + 1)..Len(mlog') :
         mlog'[i].fid # 0 /\ Failing(call.a, Frames[mlog'[i].fid]) }

\* C36: a complete valid frame that fails a filter or whose JSON does not
\* parse is removed from the buffer without the matcher being invoked and
\* without ending the receive call: the frame's octets are taken, nothing
\* is returned for it, and the call goes on with the next frame or, when it
\* was the last one buffered, stays in its loop.
C36_FailingFrameDiscarded ==
    [][\A i \in NewFailing :
          /\ mlog'[i].what \in {"filtered", "badjson"}
          /\ mlog'[i].res = RespNull
          /\ mlog'[i].taken = Len(FrameOctets(Frames[mlog'[i].fid]))
          /\ i = Len(mlog') => cpc' = "recv"]_vars

\* The event is about a frame for which a JSON value was decoded.
Decoded(e) == e.what = "badjson" \/ (e.what = "passed" /\ e.json # "")

\* The matcher returned the very value that was decoded for the frame.
Kept(e) == e.what = "passed" /\ e.res = [k |-> "json", v |-> e.json]

\* C37: every JSON value decoded for a frame is released by the channel
\* exactly once, unless the matcher returned that very value, which is
\* handed to the caller unreleased; nothing is released for a frame for
\* which no value was decoded.
C37_JsonReleasedOnce ==
    \A i \in 1..Len(mlog) :
        /\ (Decoded(mlog[i]) /\ ~Kept(mlog[i])) => mlog[i].freed = 1
        /\ (Decoded(mlog[i]) /\ Kept(mlog[i])) => mlog[i].freed = 0
        /\ ~Decoded(mlog[i]) => mlog[i].freed = 0

\* A receive that ignored a JSON frame, which was released, and returned
\* the value decoded for the next, which was not.
C37_Witness ==
    /\ cpc = "returned"
    /\ Len(mlog) = 2
    /\ mlog[1].what = "passed" /\ mlog[1].res = RespNull /\ mlog[1].freed = 1
    /\ Kept(mlog[2]) /\ mlog[2].freed = 0
    /\ result.rv = mlog[2].res

\* C38: frame alignment is preserved across the receive calls on a
\* connection, calls that end by timeout with part of a frame buffered and
\* calls that discard a malformed frame included: the first octet of the
\* read buffer is the first octet of a frame's length prefix in the
\* device's stream.
C38_FrameAligned ==
    (conn.st = "open" /\ readLen > 0) => (inbuf # <<>> /\ inbuf[1].id > 0)

\* castReceiveMessage has returned a response the matcher produced, on a
\* connection that is still open.
MatchedReturn ==
    /\ cpc \in {"returned", "closing"}
    /\ conn.st = "open" /\ call.on = nconn
    /\ result.why = "matcher"
    /\ result.rv # RespNull

C26_PointerNames ==
    /\ (kpc = "decoded" /\ kin.kind = "name") =>
           /\ kout.parse.st = "ok" => kout.parse.offset = kin.off + kin.inline + 2
           /\ kout.skip.offset = kin.off + kin.inline + 2
    /\ (kpc = "decoded" /\ kin.kind = "pair") =>
           /\ kout.c.out = kout.u.out
           /\ DeviceOf(kout.c.wrk) = DeviceOf(kout.u.wrk)

\* A response with an authority record and TXT, SRV and A records owned by
\* TV and a pointer has been decoded in both forms, to a record.
C26_Witness ==
    /\ kpc = "decoded" /\ kin.kind = "pair"
    /\ Len(kin.u) > Len(kin.c) + 80
    /\ kout.c.out = "emit"
    /\ DeviceOf(kout.c.wrk).id = StrA1 /\ DeviceOf(kout.c.wrk).port = 8010

\* C27: a response in which the rdlength of the answer, of an authority
\* record or of an additional record reaches behind the end of the datagram
\* yields no record, and where a record is emitted the read offset of the
\* message buffer is not behind the datagram's length.
C27_RdlengthWithinDatagram ==
    (kpc = "decoded" /\ kin.kind = "dgram") =>
        /\ kin.what = "rdlength" => kout.out # "emit"
        /\ kout.out = "emit" => kout.offset <= Len(kin.octets)

\* C28: a response whose PTR data is a name that is not terminated within
\* its rdlength, or whose pointer refers to an offset at or behind the end
\* of the message, yields no record.
C28_MalformedPtrDiscarded ==
    (kpc = "decoded" /\ kin.kind = "dgram"
       /\ kin.what \in {"unterminated", "pointer_out"}) =>
        kout.out # "emit"

\* The character-strings of TXT record data that are complete: those in
\* front of the first one whose length octet is not less than what is left.
RECURSIVE CompleteStrings(_)
CompleteStrings(raw) ==
    IF raw = <<>> \/ raw[1] >= Len(raw) THEN <<>>
    ELSE <<SubSeq(raw, 2, 1 + raw[1])>>
             \o CompleteStrings(SubSeq(raw, raw[1] + 2, Len(raw)))

\* The response of a TXT input as its parts: the strings that count, and
\* the records behind the TXT record.
TxtParts == [addl |-> <<Txt(CompleteStrings(kin.raw))>> \o kin.next]

\* C29: a TXT record with a character-string longer than what is left of
\* the record: the loop over its strings ends there without fault, having
\* advanced by length octet plus payload for every complete string and with
\* a remainder that is not negative; the cursor behind the record is its
\* start plus rdlength; the response yields a record with the values of the
\* complete strings and of the records behind the TXT record.
C29_ShortTxtEndsRecordOnly ==
    (kpc = "decoded" /\ kin.kind = "dgram" /\ kin.what = "txt") =>
        /\ kout.txt.st = "ok" /\ kout.txt.rLen >= 0
        /\ kout.txt.offset = TxtAt + Len(Labels(CompleteStrings(kin.raw)))
        /\ kout.txt.offset + kout.txt.rLen = TxtAt + Len(kin.raw)
        /\ kout.out = "emit"
        /\ kout.dev.id = IF HasKey(TxtParts, KeyId) THEN ValueOf(TxtParts, KeyId) ELSE <<>>
        /\ kout.dev.name = IF HasKey(TxtParts, KeyFn) THEN ValueOf(TxtParts, KeyFn)
                           ELSE StrTV
        /\ kout.dev.model = IF HasKey(TxtParts, KeyMd) THEN ValueOf(TxtParts, KeyMd)
                            ELSE StrChromecast
        /\ kout.dev.port = IF HasSrv(TxtParts) THEN SrvPort(TxtParts) ELSE DefaultPort

\* id=A1 was taken from a TXT record whose second string is too long, and
\* the port from the SRV record behind it.
C29_Witness ==
    /\ kpc = "decoded" /\ kin.kind = "dgram" /\ kin.what = "txt"
    /\ CompleteStrings(kin.raw) = <<TxtIdA1>> /\ Len(kin.raw) > 6
    /\ kout.txt.rLen > 0
    /\ kout.out = "emit" /\ kout.dev.id = StrA1 /\ kout.dev.port = 8010
====
